---- MODULE Spec2Model ----
(***************************************************************************)
(* A model of rustflare's task scheduler (src/src/task.rs: Flow::run,      *)
(* Stage::run, Task::run, ThreadPool) and of the pull wrapper of the       *)
(* physical operators (src/src/pop.rs: POPKey::next and its helpers).      *)
(*                                                                         *)
(* Spec     the scheduler thread and the worker threads of the ThreadPool. *)
(* SpecPop  a caller pulling rows through POPKey::next on a scan node.     *)
(***************************************************************************)
EXTENDS Integers, Sequences, FiniteSets, TLC

(***************************************************************************)
(* Bounds of the model.                                                    *)
(***************************************************************************)
\* Number of worker threads handed to ThreadPool::new (ntasks).
NWorkers == 2
\* Largest partition count of a flow node.
MaxPart == 3
\* Largest number of data lines of a scanned file.
MaxLines == 2

VARIABLES
    \* ---- the scheduler (task.rs) ----
    flow,          \* the Flow handed to Flow::run: a sequence of nodes
    threadsTaken,  \* ThreadPool.threads is None (join() has taken the handles)
    wstate,        \* per worker thread: "recv", "running", "exited", "panicked"
    queue,         \* per worker: the messages in its dispatch channel (FIFO)
    cur,           \* per worker: the task it deserialized and is running
    t2s,           \* number of TaskEnded messages in the response channel
    mainPc,        \* the scheduler thread: "idle", "run", "join", "panicked"
    stages,        \* Flow::run's local: the Vec<Stage> of make_stages
    si,            \* Flow::run: index of the stage being run (1-based)
    pi,            \* Stage::run: the next partition_id of the for loop
    ji,            \* ThreadPool::join: index of the thread being joined
    flowRan,       \* Flow::run has been called
    closed,        \* close_all() has been called
    \* ---- history of the scheduler (what happened, in order) ----
    created,       \* sequence of the tasks Task::new built, as [stage, part]
    sent,          \* set of [w, stage, part]: RunTask sends and their channel
    started,       \* set of [w, stage, part]: tasks a worker started
    finished,      \* set of [w, stage, part, res]: Task::run outcomes
    nEndSent,      \* per worker: number of EndTask sends on its channel
    dropped,       \* set of [w, stage, part, beforeEnd]: RunTask messages that
                   \* were still queued when worker w's receiver was dropped
    joined,        \* join() returned normally
    \* ---- a task pulling rows from a scan node (pop.rs) ----
    popNode,       \* the POP node: the CSV operator and its POPProps
    task_partition_id,  \* task.partition_id
    contexts,      \* task.contexts[pop_key]: None, or the line iterator
    task_row,      \* task.task_row: the registers
    popLast,       \* the last call of POPKey::next: its locals and its return
    \* ---- the tasks of a stage scanning the partitions of a file (pop.rs) ----
    scanCsv,       \* the CSV operator
    scanCtx,       \* per task: task.contexts[pop_key]
    scanRow,       \* per task: task.task_row
    scanOut,       \* per task: the rows seen after the calls that returned Ok(true)
    scanEnded,     \* per task: a call of CSV::next returned Ok(false)
    scanPanicked,  \* per task: a call of CSV::next panicked
    scanLate,      \* per task: a call returned Ok(true) after one returned Ok(false)
    \* ---- a task pulling a HashJoin, Repartition or Aggregation (pop.rs) ----
    opNode,        \* the root operator, its children and their POPProps
    opCtx,         \* per child: task.contexts[child key]
    opRow,         \* task.task_row
    opLast,        \* the last call of next on the root: return, pulls per child
    opCalls,       \* number of calls of next on the root so far
    shuffle,       \* per destination partition: the rows in its shuffle file
    \* ---- POP::compile (pop.rs) ----
    lop_graph,     \* the logical plan: LOP nodes, the last one the root
    compiled,      \* None, or the Flow that POP::compile returned
    \* ---- values with their own operations ----
    regalloc,      \* a RegisterAllocator and the get_id calls made on it (pop.rs)
    resolution,    \* a QueryBlock, a column reference and its resolution (qst.rs)
    env,           \* the EnvSettings and the last set_option call (env.rs)
    qblock,        \* a QueryBlock, its expressions and what resolve made of them (qst.rs)
    bitsets,       \* the Bitsets cloned from one Bitset and their dictionary (bitset.rs)
    wire           \* a (flow, stage, task) tuple and what a worker decodes (task.rs)

schedVars == <<flow, threadsTaken, wstate, queue, cur, t2s, mainPc, stages, si,
               pi, ji, flowRan, closed, created, sent, started, finished,
               nEndSent, dropped, joined>>

popVars == <<popNode, task_partition_id, contexts, task_row, popLast>>

scanVars == <<scanCsv, scanCtx, scanRow, scanOut, scanEnded, scanPanicked, scanLate>>

opVars == <<opNode, opCtx, opRow, opLast, opCalls, shuffle>>

compVars == <<lop_graph, compiled>>

libVars == <<regalloc, resolution, env, wire, qblock, bitsets>>

vars == <<schedVars, popVars, scanVars, opVars, compVars, libVars>>

Workers == 0 .. (NWorkers - 1)

(***************************************************************************)
(* Rows, data and compiled expressions.                                    *)
(***************************************************************************)
\* Datum
INT(i) == [tag |-> "INT", v |-> i]
STR(t) == [tag |-> "STR", v |-> t]
BOOL(b) == [tag |-> "BOOL", v |-> b]
NULL == [tag |-> "NULL"]
\* The evaluation of an expression that does not end (the thread panics).
PanicDatum == [tag |-> "PANIC"]

\* Option<T>
None == [some |-> FALSE]
Some(x) == [some |-> TRUE, v |-> x]

\* Width of the register row of a task.
NRegs == 2
Registers == 0 .. (NRegs - 1)

\* Row::set_column
set_column(row, reg, datum) == [row EXCEPT ![reg] = datum]

\* PCode instructions
PushLit(d) == [op |-> "PushLit", d |-> d]
PushReg(r) == [op |-> "PushReg", r |-> r]
Rel(rel) == [op |-> "Rel", rel |-> rel]

Top(stack) == stack[Len(stack)]
Pop(stack, n) == SubSeq(stack, 1, Len(stack) - n)

\* One relational instruction on two data: defined between data of the same
\* tag only.
RelApply(rel, lhs, rhs) ==
    IF lhs.tag # rhs.tag \/ lhs.tag \notin {"INT", "STR", "BOOL"} THEN PanicDatum
    ELSE IF rel = "=" THEN BOOL(lhs.v = rhs.v)
    ELSE IF lhs.tag # "INT" THEN PanicDatum
    ELSE BOOL(lhs.v > rhs.v)

RECURSIVE PCodeExec(_, _, _, _)
\* The stack machine, from instruction i on.
PCodeExec(code, i, stack, row) ==
    IF i > Len(code)
    THEN IF stack = <<>> THEN PanicDatum ELSE Top(stack)
    ELSE LET ins == code[i]
         IN IF ins.op = "PushLit"
            THEN PCodeExec(code, i + 1, Append(stack, ins.d), row)
            ELSE IF ins.op = "PushReg"
            THEN PCodeExec(code, i + 1, Append(stack, row[ins.r]), row)
            ELSE IF Len(stack) < 2 THEN PanicDatum
            ELSE LET r == RelApply(ins.rel, stack[Len(stack) - 1], Top(stack))
                 IN IF r = PanicDatum THEN PanicDatum
                    ELSE PCodeExec(code, i + 1, Append(Pop(stack, 2), r), row)

\* PCode::eval(registers) -> Datum
eval(code, registers) == PCodeExec(code, 1, <<>>, registers)

(***************************************************************************)
(* POPKey: the pull wrapper (pop.rs).                                      *)
(***************************************************************************)
RECURSIVE PredsFrom(_, _, _)
\* The for loop of eval_predicates from predicate i on: "true", "false"
\* (short circuit) or "panic" (a result that is no BOOL).
PredsFrom(preds, i, registers) ==
    IF i > Len(preds) THEN "true"
    ELSE LET result == eval(preds[i], registers)
         IN IF result.tag = "BOOL"
            THEN IF ~result.v THEN "false"
                 ELSE PredsFrom(preds, i + 1, registers)
            ELSE "panic"

\* POPKey::eval_predicates
eval_predicates(props, registers) ==
    IF props.predicates.some
    THEN PredsFrom(props.predicates.v, 1, registers)
    ELSE "true"

\* POPKey::eval_emitcols: Option<Row>
eval_emitcols(props, registers) ==
    IF props.emitcols.some
    THEN Some([i \in DOMAIN props.emitcols.v |->
                  eval(props.emitcols.v[i], registers)])
    ELSE None

(***************************************************************************)
(* CSV: the scan of one partition of a text file (pop.rs).                 *)
(***************************************************************************)
\* str::parse::<isize> on the fields the model's files hold.
ParseInt(field) ==
    IF field = "1" THEN Some(1)
    ELSE IF field = "2" THEN Some(2)
    ELSE None

RECURSIVE CsvFields(_, _, _, _)
\* The for_each over the fields of a line, from field ix (0-based) on: the
\* row with the mapped columns written; ok is FALSE when a field panics.
CsvFields(csv, line, ix, row) ==
    IF ix >= Len(line) THEN [ok |-> TRUE, row |-> row]
    ELSE IF ix \notin DOMAIN csv.input_map THEN CsvFields(csv, line, ix + 1, row)
    ELSE LET col == line[ix + 1]
             ttuple_ix == csv.input_map[ix]
         IN IF csv.coltypes[ix + 1] = "INT"
            THEN IF ParseInt(col).some
                 THEN CsvFields(csv, line, ix + 1,
                                set_column(row, ttuple_ix, INT(ParseInt(col).v)))
                 ELSE [ok |-> FALSE, row |-> row]
            ELSE IF csv.coltypes[ix + 1] = "STR"
            THEN CsvFields(csv, line, ix + 1, set_column(row, ttuple_ix, STR(col)))
            ELSE [ok |-> FALSE, row |-> row]

\* CSV::next, the or_insert_with closure: the iterator of the task's
\* partition, its first line consumed when partition_id == 0. The iterator
\* is the index of the next line of the partition.
CsvOpen(csv, pid) == IF pid = 0 THEN 2 ELSE 1

\* CSV::next with the iterator made anew by every call.
CsvNextReopen(csv, pid, ctx, row) ==
    LET pos == CsvOpen(csv, pid)
        lines == csv.partitions[pid + 1]
    IN IF pos <= Len(lines)
       THEN LET r == CsvFields(csv, lines[pos], 0, row)
            IN [ret |-> IF r.ok THEN "OkTrue" ELSE "Panic",
                contexts |-> Some(pos + 1), row |-> r.row]
       ELSE [ret |-> "OkFalse", contexts |-> Some(pos), row |-> row]

\* CSV::next: [ret, contexts, row], ret being "OkTrue", "OkFalse" or "Panic".
CsvNext(csv, pid, ctx, row) ==
    LET pos == IF ctx.some THEN ctx.v ELSE CsvOpen(csv, pid)
        lines == csv.partitions[pid + 1]
    IN IF pos <= Len(lines)
       THEN LET r == CsvFields(csv, lines[pos], 0, row)
            IN [ret |-> IF r.ok THEN "OkTrue" ELSE "Panic",
                contexts |-> Some(pos + 1), row |-> r.row]
       ELSE [ret |-> "OkFalse", contexts |-> Some(pos), row |-> row]

\* A CSVDir operator: the lines of the files of directory
\* {dirname_prefix}-{pid} are csv.partitions[pid + 1].
IsDir(csv) == "dirname_prefix" \in DOMAIN csv

\* CSVDir::next, the or_insert_with closure: the iterator over the lines of
\* the directory of the task's partition, no line consumed.
CsvDirOpen(csv, pid) == 1

\* CSVDir::next: [ret, contexts, row] as for CSV::next.
CsvDirNext(csv, pid, ctx, row) ==
    LET pos == IF ctx.some THEN ctx.v ELSE CsvDirOpen(csv, pid)
        lines == csv.partitions[pid + 1]
    IN IF pos <= Len(lines)
       THEN LET r == CsvFields(csv, lines[pos], 0, row)
            IN [ret |-> IF r.ok THEN "OkTrue" ELSE "Panic",
                contexts |-> Some(pos + 1), row |-> r.row]
       ELSE [ret |-> "OkFalse", contexts |-> Some(pos), row |-> row]

\* The locals and the return of a call of POPKey::next that has not happened.
NoCall ==
    [ret |-> "none", is_head |-> FALSE, got_row |-> FALSE,
     row_passed |-> "none", emitrow |-> None]

\* POPKey::next on a CSV node: [contexts, row, last], last holding the
\* return ("OkTrue", "OkFalse", "Panic") and the locals got_row, row_passed
\* and emitrow of the call.
POPKeyNext(node, pid, ctx, row, is_head) ==
    LET inner == CsvNext(node.csv, pid, ctx, row)
        got_row == inner.ret = "OkTrue"
        row_passed == IF got_row THEN eval_predicates(node.props, inner.row)
                      ELSE "none"
        emitrow == IF row_passed = "true" THEN eval_emitcols(node.props, inner.row)
                   ELSE None
        emit_panics == emitrow.some /\ \E i \in DOMAIN emitrow.v :
                                          emitrow.v[i] = PanicDatum
        ret == IF inner.ret = "Panic" \/ row_passed = "panic" \/ emit_panics
               THEN "Panic"
               ELSE IF got_row THEN "OkTrue" ELSE "OkFalse"
    IN [contexts |-> inner.contexts, row |-> inner.row,
        last |-> [ret |-> ret, is_head |-> is_head, got_row |-> got_row,
                  row_passed |-> row_passed, emitrow |-> emitrow]]

\* The lines of the scanned files.
HeaderLine == <<"a", "b">>
DataLines == { <<"1", "x">>, <<"2", "y">>, <<"x", "y">> }

RECURSIVE SeqsUpTo(_, _)
\* The sequences over S of length at most n.
SeqsUpTo(S, n) ==
    IF n = 0 THEN { <<>> }
    ELSE LET shorter == SeqsUpTo(S, n - 1)
         IN shorter \cup { Append(q, x) : q \in { r \in shorter : Len(r) = n - 1 },
                                          x \in S }

\* The files: an optional header line, then data lines.
Files(header) ==
    { (IF header THEN <<HeaderLine>> ELSE <<>>) \o d : d \in SeqsUpTo(DataLines, MaxLines) }

\* The partitions of a file: the whole file, or its lines cut in two. The
\* first partition starts at the start of the file and so holds the first
\* line of a file that has one.
PartitionsOf(file) ==
    { <<file>> } \cup
    { << SubSeq(file, 1, k), SubSeq(file, k + 1, Len(file)) >> :
        k \in (IF file = <<>> THEN {0} ELSE 1 .. Len(file)) }

\* The predicates of a node: none, a > 1, a > 1 and b = "y", or a column
\* that is no BOOL.
PredicateSets ==
    { None,
      Some(<< <<PushReg(0), PushLit(INT(1)), Rel(">")>> >>),
      Some(<< <<PushReg(0), PushLit(INT(1)), Rel(">")>>,
              <<PushReg(1), PushLit(STR("y")), Rel("=")>> >>),
      Some(<< <<PushReg(0)>> >>) }

\* The emit columns of a node: none, b, or a and b.
EmitcolSets ==
    { None, Some(<< <<PushReg(1)>> >>), Some(<< <<PushReg(0)>>, <<PushReg(1)>> >>) }

\* CSV and POPProps of a scan node over the partitions parts of a file.
PopNode(h, parts, preds, emits) ==
    [csv |-> [coltypes |-> <<"INT", "STR">>, header |-> h, partitions |-> parts,
              input_map |-> (0 :> 0 @@ 1 :> 1)],
     props |-> [predicates |-> preds, emitcols |-> emits,
                npartitions |-> Len(parts)]]

\* The scan nodes: the file has a header line exactly when the table's
\* header flag says so.
PopNodes ==
    UNION { { PopNode(h, parts, preds, emits) :
                parts \in UNION { PartitionsOf(f) : f \in Files(h) },
                preds \in PredicateSets, emits \in EmitcolSets } :
            h \in BOOLEAN }

IdleNode == PopNode(FALSE, << <<>> >>, None, None)

(***************************************************************************)
(* The Flow: a vector of nodes; a node has an id (its index), a flag       *)
(* is_endpoint(), an ordered child list and npartitions().                 *)
(***************************************************************************)
Node(endpoint, children, np) ==
    [endpoint |-> endpoint, children |-> children, npartitions |-> np]

\* scan -> emit: one stage.
FlowOneStage(a) ==
    << Node(FALSE, <<>>, a), Node(TRUE, <<1>>, a) >>

\* scan -> repartition -> emit: a child stage and its parent stage.
FlowTwoStages(a, b) ==
    << Node(FALSE, <<>>, a), Node(TRUE, <<1>>, b), Node(TRUE, <<2>>, b) >>

\* (scan -> repartition), (scan -> repartition) -> join -> emit: two child
\* stages under one parent stage.
FlowJoin(a, b) ==
    << Node(FALSE, <<>>, a), Node(TRUE, <<1>>, b),
       Node(FALSE, <<>>, 1), Node(TRUE, <<3>>, b),
       Node(FALSE, <<2, 4>>, b), Node(TRUE, <<5>>, b) >>

FlowSet ==
    { FlowOneStage(a) : a \in 1 .. MaxPart }
    \cup { FlowTwoStages(a, b) : a \in 1 .. MaxPart, b \in 1 .. MaxPart }
    \cup { FlowJoin(a, 1) : a \in 1 .. 2 }

\* Stage::new
StageNew(top, f) ==
    [ head_node_id |-> top,
      npartitions_producer |-> f[f[top].children[1]].npartitions,
      npartitions_consumer |-> f[top].npartitions ]

RECURSIVE StagesFrom(_, _)
StagesFrom(f, i) ==
    IF i > Len(f) THEN <<>>
    ELSE IF f[i].endpoint THEN <<StageNew(i, f)>> \o StagesFrom(f, i + 1)
    ELSE StagesFrom(f, i + 1)

\* Flow::make_stages: the endpoint nodes, in node order
make_stages(f) == StagesFrom(f, 1)

\* A slip in Stage::run: the consumer's partition count bounds the loop.
npartitions_consumer_slip(stage) == stage.npartitions_consumer

\* Stage::run: `let npartitions = self.npartitions_producer`
npartitions(stage) == stage.npartitions_producer

\* ThreadPool::size
size == IF threadsTaken THEN 0 ELSE NWorkers

\* A slip in Stage::run: the partition id is clamped to the last worker
\* instead of being reduced modulo the pool size.
thread_id_clamp(partition_id) ==
    IF partition_id < size THEN partition_id ELSE size - 1

\* Stage::run's choice of the worker of a partition
thread_id(partition_id) == partition_id % size

\* A slip in the channel: a message is queued whether the receiver lives or
\* not.
SendAlways(q, w, msg) == [q EXCEPT ![w] = Append(@, msg)]

\* mpsc::Sender::send on worker w's dispatch channel: the message is queued
\* while the receiver lives; once the worker thread is gone the receiver is
\* dropped, send returns Err and the caller discards it.
Send(q, w, msg) ==
    IF wstate[w] \in {"exited", "panicked"} THEN q
    ELSE [q EXCEPT ![w] = Append(@, msg)]

\* The RunTask messages lost with worker w's receiver, each marked with
\* whether an EndTask was queued behind it.
Dropped(w) ==
    { [w |-> w, stage |-> queue[w][i].stage, part |-> queue[w][i].part,
       beforeEnd |-> \E j \in DOMAIN queue[w] :
                        j > i /\ queue[w][j].type = "EndTask"] :
      i \in { k \in DOMAIN queue[w] : queue[w][k].type = "RunTask" } }

RunTaskMsg(stage, part) == [type |-> "RunTask", stage |-> stage, part |-> part]
EndTaskMsg == [type |-> "EndTask"]
NoTask == [stage |-> 0, part |-> 0]

\* The Result<bool, String> one call of next() on a stage's root operator
\* can return: Ok(true), Ok(false), Err(_).
NextResults == {"OkTrue", "OkFalse", "Err"}

\* ThreadPool::new, before any call on the pool.
InitSched ==
    /\ threadsTaken = FALSE
    /\ wstate = [w \in Workers |-> "recv"]
    /\ queue = [w \in Workers |-> <<>>]
    /\ cur = [w \in Workers |-> NoTask]
    /\ t2s = 0
    /\ mainPc = "idle"
    /\ stages = <<>>
    /\ si = 0
    /\ pi = 0
    /\ ji = 0
    /\ flowRan = FALSE
    /\ closed = FALSE
    /\ created = <<>>
    /\ sent = {}
    /\ started = {}
    /\ finished = {}
    /\ nEndSent = [w \in Workers |-> 0]
    /\ dropped = {}
    /\ joined = FALSE

\* Task::new(pid) for a scan node: no runtime state, registers unset.
InitTask(node, pid) ==
    /\ popNode = node
    /\ task_partition_id = pid
    /\ contexts = None
    /\ task_row = [r \in Registers |-> NULL]
    /\ popLast = NoCall

(***************************************************************************)
(* HashJoin, Repartition and Aggregation (pop.rs).                         *)
(***************************************************************************)
\* Calls of next on the root that a caller makes at most.
MaxCalls == 3

\* The element of a set of one element.
Only(S) == CHOOSE x \in S : TRUE

RECURSIVE Drain(_, _, _, _, _)
\* while child_key.next(flow, stage, task, false).unwrap() {}: the calls of
\* next on the child until it returns Ok(false); pulls counts them from n
\* on, and ok is FALSE when one of them panics.
Drain(child, pid, ctx, row, n) ==
    Only({ IF r.last.ret = "OkTrue"
           THEN Drain(child, pid, r.contexts, r.row, n + 1)
           ELSE [ok |-> r.last.ret = "OkFalse", contexts |-> r.contexts,
                 row |-> r.row, pulls |-> n + 1] :
           r \in { POPKeyNext(child, pid, ctx, row, FALSE) } })

\* HashJoin::next after the probe child is drained: the build child is
\* drained, and the call returns Ok(true).
HashJoinBuild(node, pid, ctxs, probe) ==
    Only({ [ret |-> IF build.ok THEN "OkTrue" ELSE "Panic",
            contexts |-> <<probe.contexts, build.contexts>>,
            row |-> build.row, pulls |-> <<probe.pulls, build.pulls>>,
            eof |-> <<TRUE, build.ok>>] :
           build \in { Drain(node.children[2], pid, ctxs[2], probe.row, 0) } })

\* HashJoin::next: the probe child is drained, then the build child, and
\* the call returns Ok(true).
HashJoinNext(node, pid, ctxs, row) ==
    Only({ IF ~probe.ok
           THEN [ret |-> "Panic", contexts |-> <<probe.contexts, ctxs[2]>>,
                 row |-> probe.row, pulls |-> <<probe.pulls, 0>>,
                 eof |-> <<FALSE, FALSE>>]
           ELSE HashJoinBuild(node, pid, ctxs, probe) :
           probe \in { Drain(node.children[1], pid, ctxs[1], row, 0) } })

\* Repartition::next and Aggregation::next: todo!(), which panics before
\* any child is pulled.
TodoNext(node, pid, ctxs, row) ==
    [ret |-> "Panic", contexts |-> ctxs, row |-> row,
     pulls |-> [c \in DOMAIN ctxs |-> 0], eof |-> [c \in DOMAIN ctxs |-> FALSE]]

\* POPKey::next on a HashJoin, Repartition or Aggregation node: the match on
\* pop, then the predicates and the emit columns of the node.
OpKeyNext(node, pid, ctxs, row) ==
    Only({ LET got_row == inner.ret = "OkTrue"
               row_passed == IF got_row THEN eval_predicates(node.props, inner.row)
                             ELSE "none"
               emitrow == IF row_passed = "true"
                          THEN eval_emitcols(node.props, inner.row)
                          ELSE None
               emit_panics == emitrow.some /\ \E i \in DOMAIN emitrow.v :
                                                 emitrow.v[i] = PanicDatum
           IN [inner EXCEPT !.ret = IF inner.ret = "Panic" \/ row_passed = "panic"
                                          \/ emit_panics
                                       THEN "Panic" ELSE inner.ret] :
           inner \in { IF node.kind = "HashJoin"
                       THEN HashJoinNext(node, pid, ctxs, row)
                       ELSE TodoNext(node, pid, ctxs, row) } })

\* The inputs of an operator: scans of one partition.
OpChildren ==
    UNION { { PopNode(h, <<f>>, None, None) : f \in Files(h) } : h \in BOOLEAN }

\* POPProps::new(predicates, emitcols, npartitions) without predicates and
\* emit columns.
OpProps(np) == [predicates |-> None, emitcols |-> None, npartitions |-> np]

\* The operators: a HashJoin of a probe and a build child, a Repartition to
\* one or two partitions, an Aggregation with or without grouping keys.
OpNodes ==
    { [kind |-> "HashJoin", children |-> <<p, b>>, props |-> OpProps(1),
       group_by |-> FALSE] : p \in OpChildren, b \in OpChildren }
    \cup { [kind |-> "Repartition", children |-> <<c>>, props |-> OpProps(np),
             group_by |-> FALSE] : c \in OpChildren, np \in 1 .. 2 }
    \cup { [kind |-> "Aggregation", children |-> <<c>>, props |-> OpProps(1),
             group_by |-> g] : c \in OpChildren, g \in BOOLEAN }

IdleOp ==
    [kind |-> "Aggregation", children |-> <<IdleNode>>, props |-> OpProps(1),
     group_by |-> FALSE]

\* A call of next on the root that has not happened.
NoOpCall(node) ==
    [ret |-> "none", pulls |-> [c \in DOMAIN node.children |-> 0],
     eof |-> [c \in DOMAIN node.children |-> FALSE]]

\* The task of partition 0 as Task::new leaves it, and the shuffle files of
\* the destination partitions, empty.
InitOps(node) ==
    /\ opNode = node
    /\ opCtx = [c \in DOMAIN node.children |-> None]
    /\ opRow = [r \in Registers |-> NULL]
    /\ opLast = NoOpCall(node)
    /\ opCalls = 0
    /\ shuffle = [d \in 0 .. (node.props.npartitions - 1) |-> <<>>]

(***************************************************************************)
(* RegisterAllocator (pop.rs).                                             *)
(***************************************************************************)
\* Quantifiers of a query and columns of a table at most.
MaxQun == 2
NCols == 2

\* QunCol(QunId, ColId)
QunCols == (1 .. MaxQun) \X (0 .. (NCols - 1))

\* Calls of get_id at most.
MaxGets == 4

\* HashMap::new()
EmptyMap == [k \in {} |-> 0]

\* hashmap.entry(key).or_insert(value): the map after the call.
or_insert(hashmap, key, value) ==
    IF key \in DOMAIN hashmap THEN hashmap ELSE (key :> value) @@ hashmap

\* RegisterAllocator::new
RegisterAllocatorNew == [hashmap |-> EmptyMap, next_id |-> 0]

\* RegisterAllocator::get_id with next_id advanced on every call.
get_id_bump(ra, quncol) ==
    LET next_id == ra.next_id
        hashmap == or_insert(ra.hashmap, quncol, next_id)
    IN [ra |-> [hashmap |-> hashmap, next_id |-> next_id + 1],
        id |-> hashmap[quncol]]

\* RegisterAllocator::get_id: [ra, id], the allocator after the call and
\* the id returned.
get_id(ra, quncol) ==
    LET next_id == ra.next_id
        hashmap == or_insert(ra.hashmap, quncol, next_id)
        e == hashmap[quncol]
    IN [ra |-> [hashmap |-> hashmap,
                next_id |-> IF e = next_id THEN next_id + 1 ELSE next_id],
        id |-> e]

InitRegs == regalloc = [ra |-> RegisterAllocatorNew, gets |-> <<>>]

(***************************************************************************)
(* POP::compile: the lowering of a logical plan to a POP graph and a stage *)
(* graph (pop.rs).                                                         *)
(***************************************************************************)
\* Nodes of a logical plan at most.
MaxLopNodes == 4

\* The LOP nodes a graph can hold at key i: a TableScan, a Repartition or an
\* Aggregation of one node, a HashJoin of two, the children at lower keys.
LopNodesAt(i) ==
    { [kind |-> "TableScan", children |-> <<>>, preds |-> <<>>, emitcols |-> None] }
    \cup { [kind |-> k, children |-> <<c>>, preds |-> <<>>, emitcols |-> None] :
             k \in {"Repartition", "Aggregation"}, c \in 1 .. (i - 1) }
    \cup { [kind |-> "HashJoin", children |-> <<c, d>>, preds |-> <<>>,
            emitcols |-> None] :
             c \in 1 .. (i - 1), d \in 1 .. (i - 1) }

RECURSIVE LopGraphsOfLen(_)
LopGraphsOfLen(n) ==
    IF n = 0 THEN { <<>> }
    ELSE { Append(g, node) : g \in LopGraphsOfLen(n - 1), node \in LopNodesAt(n) }

RECURSIVE LopReach(_, _)
\* The keys of the nodes of g at and below key k.
LopReach(g, k) ==
    {k} \cup UNION { LopReach(g, g[k].children[i]) : i \in DOMAIN g[k].children }

\* The logical plans: the root is the node of the highest key, and every
\* node is part of the plan below the root.
LopGraphs ==
    UNION { { g \in LopGraphsOfLen(n) : LopReach(g, n) = 1 .. n } :
            n \in 1 .. MaxLopNodes }

IdleLop ==
    << [kind |-> "TableScan", children |-> <<>>, preds |-> <<>>, emitcols |-> None] >>

\* The expressions of predicates and emit columns: a column of a quantifier,
\* a literal, a comparison.
Column(quncol) == [e |-> "Column", quncol |-> quncol]
Literal(d) == [e |-> "Literal", d |-> d]
RelExpr(rel, lhs, rhs) == [e |-> "RelExpr", rel |-> rel, lhs |-> lhs, rhs |-> rhs]

\* The place of a QunCol in the dictionary the Bitsets of a query share.
DictId(quncol) == quncol[1] * NCols + quncol[2]

RECURSIVE elements(_)
\* Bitset::elements: the members in the order of their dictionary ids.
elements(bitset) ==
    IF bitset = {} THEN <<>>
    ELSE LET first == CHOOSE x \in bitset : \A y \in bitset : DictId(x) <= DictId(y)
         IN <<first>> \o elements(bitset \ {first})

\* LOP::TableScan { input_cols }: the scan at lop_key reads the columns of
\* the quantifier of that id.
InputCols(lop_key) == { <<lop_key, c>> : c \in 0 .. (NCols - 1) }

\* lopprops.cols: the columns of the scans at and below a node.
LopCols(lops, k) ==
    UNION { InputCols(j) : j \in { i \in LopReach(lops, k) : lops[i].kind = "TableScan" } }

\* The predicate quncol > 1.
Gt(quncol) == RelExpr(">", Column(quncol), Literal(INT(1)))

\* The preds and emitcols the node at key k of a plan can carry, over the
\* first and the last of its columns. A Repartition carries no preds.
LopDecorations(lops, k) ==
    LET cols == elements(LopCols(lops, k))
        a == cols[1]
        b == cols[Len(cols)]
        movable == lops[k].kind # "Repartition"
    IN { [preds |-> IF movable THEN <<Gt(b)>> ELSE <<>>, emitcols |-> None],
         [preds |-> <<>>, emitcols |-> Some(<<Column(b)>>)],
         [preds |-> IF movable THEN <<Gt(b), Gt(a)>> ELSE <<>>,
          emitcols |-> Some(<<Column(b), Column(a)>>)] }

\* A plan with preds and emitcols given to its node at key k.
Decorate(g, k, d) ==
    [g EXCEPT ![k] = [@ EXCEPT !.preds = d.preds, !.emitcols = d.emitcols]]

\* The logical plan g with the properties of its nodes: one node at most
\* carries preds or emitcols.
DecoratedLops(g) ==
    {g} \cup UNION { { Decorate(g, k, d) : d \in LopDecorations(g, k) } : k \in DOMAIN g }

\* StageGraph::add_stage(lop_key, parent_stage_id): a new stage without a
\* root POP and with a new register allocator; its id is its index.
add_stage(stage_graph, lop_key, parent_stage_id) ==
    Append(stage_graph, [lop_key |-> lop_key, parent_stage_id |-> parent_stage_id,
                         pop_key |-> None,
                         register_allocator |-> RegisterAllocatorNew])

\* StageGraph::set_pop_key(pop_graph, stage_id, pop_key)
set_pop_key(stage_graph, stage_id, pop_key) ==
    [stage_graph EXCEPT ![stage_id].pop_key = Some(pop_key)]

\* StageGraph::get_register_allocator(stage_id)
get_register_allocator(stage_graph, stage_id) ==
    stage_graph[stage_id].register_allocator

\* The stage graph once the allocator borrowed from stage stage_id has been
\* used and is ra.
put_register_allocator(stage_graph, stage_id, ra) ==
    [stage_graph EXCEPT ![stage_id].register_allocator = ra]

\* POPProps::new(predicates, emitcols, npartitions), the partition count
\* left out.
POPPropsNew(predicates, emitcols) == [predicates |-> predicates, emitcols |-> emitcols]

\* Graph::add_node_with_props: the new node's key is its index. lop_key and
\* stage_id record the LOP node the POP node was lowered from and the stage
\* whose register allocator compiled it.
add_node_with_props(pop_graph, pop, props, children, lop_key, stage_id) ==
    Append(pop_graph, [kind |-> pop.kind, pop |-> pop, props |-> props,
                       children |-> children, lop_key |-> lop_key,
                       stage_id |-> stage_id])

\* pop_children.push(pop_key), written on the first child.
pop_children_push_front(pop_children, pop_key) == <<pop_key>> \o pop_children

\* pop_children.push(pop_key)
pop_children_push(pop_children, pop_key) == Append(pop_children, pop_key)

\* The POP of a LOP: compile_scan, compile_join, compile_repartition,
\* compile_aggregation.
PopKindOf(lop) ==
    IF lop.kind = "TableScan" THEN "CSV" ELSE lop.kind

RECURSIVE compile_expr(_, _)
\* ExprKey::compile(expr_graph, pcode, register_allocator): [pcode, ra].
compile_expr(expr, ra) ==
    IF expr.e = "Column"
    THEN Only({ [pcode |-> <<PushReg(r.id)>>, ra |-> r.ra] :
                  r \in { get_id(ra, expr.quncol) } })
    ELSE IF expr.e = "Literal"
    THEN [pcode |-> <<PushLit(expr.d)>>, ra |-> ra]
    ELSE Only({ Only({ [pcode |-> l.pcode \o r.pcode \o <<Rel(expr.rel)>>,
                        ra |-> r.ra] :
                         r \in { compile_expr(expr.rhs, l.ra) } }) :
                  l \in { compile_expr(expr.lhs, ra) } })

RECURSIVE compile_exprs(_, _, _, _)
\* One PCode per expression, from expression i on: [pcodevec, ra].
compile_exprs(exprs, i, ra, pcodevec) ==
    IF i > Len(exprs) THEN [pcodevec |-> pcodevec, ra |-> ra]
    ELSE Only({ compile_exprs(exprs, i + 1, r.ra, Append(pcodevec, r.pcode)) :
                  r \in { compile_expr(exprs[i], ra) } })

\* POP::compile_predicates: [v, ra], v the Option<Vec<PCode>>.
compile_predicates(preds, ra) ==
    IF Len(preds) > 0
    THEN Only({ [v |-> Some(r.pcodevec), ra |-> r.ra] :
                  r \in { compile_exprs(preds, 1, ra, <<>>) } })
    ELSE [v |-> None, ra |-> ra]

\* POP::compile_emitcols that compiles nothing.
compile_emitcols_none(emitcols, ra) == [v |-> None, ra |-> ra]

\* POP::compile_emitcols: [v, ra], v the Option<Vec<PCode>>.
compile_emitcols(emitcols, ra) ==
    IF emitcols.some
    THEN Only({ [v |-> Some(r.pcodevec), ra |-> r.ra] :
                  r \in { compile_exprs(emitcols.v, 1, ra, <<>>) } })
    ELSE [v |-> None, ra |-> ra]

RECURSIVE get_ids(_, _, _, _)
\* quncols.iter().map(|&quncol| ra.get_id(quncol)), from element i on:
\* [ids, ra].
get_ids(quncols, i, ra, ids) ==
    IF i > Len(quncols) THEN [ids |-> ids, ra |-> ra]
    ELSE Only({ get_ids(quncols, i + 1, r.ra, Append(ids, r.id)) :
                  r \in { get_id(ra, quncols[i]) } })

\* The node added and the allocator given back: [pop_graph, stage_graph,
\* pop_key].
Compiled(pop_graph, pop, props, children, lop_key, stage_graph, stage_id, ra) ==
    Only({ [pop_graph |-> added,
            stage_graph |-> put_register_allocator(stage_graph, stage_id, ra),
            pop_key |-> Len(added)] :
             added \in { add_node_with_props(pop_graph, pop, props, children,
                                              lop_key, stage_id) } })

\* POP::compile_repartition
compile_repartition(lops, lop_key, pop_graph, pop_children, stage_graph, stage_id, child_stage_id) ==
    Only({ Only({ Compiled(pop_graph,
                           [kind |-> PopKindOf(lops[lop_key]),
                            output_map |-> IF ~e.v.some THEN Some(m.ids) ELSE None],
                           POPPropsNew(None, e.v), pop_children, lop_key,
                           stage_graph, stage_id, m.ra) :
                    m \in { IF ~e.v.some
                            THEN get_ids(elements(LopCols(lops, lop_key)), 1, e.ra, <<>>)
                            ELSE [ids |-> <<>>, ra |-> e.ra] } }) :
             e \in { compile_emitcols(lops[lop_key].emitcols,
                                      get_register_allocator(stage_graph, stage_id)) } })

\* POP::compile_join
compile_join(lops, lop_key, pop_graph, pop_children, stage_graph, stage_id) ==
    Only({ Only({ Compiled(pop_graph, [kind |-> PopKindOf(lops[lop_key])],
                           POPPropsNew(p.v, e.v), pop_children, lop_key,
                           stage_graph, stage_id, e.ra) :
                    e \in { compile_emitcols(lops[lop_key].emitcols, p.ra) } }) :
             p \in { compile_predicates(lops[lop_key].preds,
                                        get_register_allocator(stage_graph, stage_id)) } })

\* POP::compile_aggregation
compile_aggregation(lops, lop_key, pop_graph, pop_children, stage_graph, stage_id) ==
    Compiled(pop_graph, [kind |-> PopKindOf(lops[lop_key])], POPPropsNew(None, None),
             pop_children, lop_key, stage_graph, stage_id,
             get_register_allocator(stage_graph, stage_id))

\* The input map of compile_scan: ColId -> RegisterId.
InputMap(input_cols, ids) ==
    [c \in { input_cols[i][2] : i \in DOMAIN input_cols } |->
        ids[CHOOSE i \in DOMAIN input_cols : input_cols[i][2] = c]]

\* POP::compile_scan
compile_scan(lops, lop_key, pop_graph, stage_graph, stage_id) ==
    Only({ Only({ Only({ Compiled(pop_graph,
                                  [kind |-> PopKindOf(lops[lop_key]),
                                   input_map |-> InputMap(elements(InputCols(lop_key)), m.ids)],
                                  POPPropsNew(p.v, e.v), <<>>, lop_key,
                                  stage_graph, stage_id, e.ra) :
                           e \in { compile_emitcols(lops[lop_key].emitcols, p.ra) } }) :
                    p \in { compile_predicates(lops[lop_key].preds, m.ra) } }) :
             m \in { get_ids(elements(InputCols(lop_key)), 1,
                             get_register_allocator(stage_graph, stage_id), <<>>) } })

\* POP::compile_lop, the match on the LOP: below is what the children
\* compiled to.
compile_pop(lops, lop_key, below, stage_id, child_stage_id) ==
    IF lops[lop_key].kind = "TableScan"
    THEN compile_scan(lops, lop_key, below.pop_graph, below.stage_graph, stage_id)
    ELSE IF lops[lop_key].kind = "HashJoin"
    THEN compile_join(lops, lop_key, below.pop_graph, below.pop_children,
                      below.stage_graph, stage_id)
    ELSE IF lops[lop_key].kind = "Repartition"
    THEN compile_repartition(lops, lop_key, below.pop_graph, below.pop_children,
                             below.stage_graph, stage_id, child_stage_id)
    ELSE compile_aggregation(lops, lop_key, below.pop_graph, below.pop_children,
                             below.stage_graph, stage_id)

RECURSIVE compile_lop(_, _, _, _, _)
RECURSIVE compile_children(_, _, _, _, _, _, _)
\* POP::compile_lop: [pop_graph, stage_graph, pop_key].
compile_lop(lops, lop_key, pop_graph, stage_graph, stage_id) ==
    LET lop == lops[lop_key]
        is_repartition == lop.kind = "Repartition"
        staged == IF is_repartition
                  THEN add_stage(stage_graph, lop_key, Some(stage_id))
                  ELSE stage_graph
        child_stage_id == IF is_repartition THEN Len(staged) ELSE stage_id
    IN Only({ Only({ [pop_graph |-> r.pop_graph,
                      stage_graph |-> IF stage_id # child_stage_id
                                      THEN set_pop_key(r.stage_graph, child_stage_id,
                                                       r.pop_key)
                                      ELSE r.stage_graph,
                      pop_key |-> r.pop_key] :
                       r \in { compile_pop(lops, lop_key, below, stage_id,
                                           child_stage_id) } }) :
                below \in { compile_children(lops, lop.children, 1, pop_graph,
                                             staged, child_stage_id, <<>>) } })

\* The for loop over lop_children of compile_lop, from child i on.
compile_children(lops, lop_children, i, pop_graph, stage_graph, child_stage_id, pop_children) ==
    IF i > Len(lop_children)
    THEN [pop_graph |-> pop_graph, stage_graph |-> stage_graph,
          pop_children |-> pop_children]
    ELSE Only({ compile_children(lops, lop_children, i + 1, r.pop_graph,
                                 r.stage_graph, child_stage_id,
                                 pop_children_push(pop_children, r.pop_key)) :
                  r \in { compile_lop(lops, lop_children[i], pop_graph, stage_graph,
                                      child_stage_id) } })

\* POP::compile: the Flow of the logical plan lops, whose root is its last
\* node.
compile(lops) ==
    LET lop_key == Len(lops)
        staged == add_stage(<<>>, lop_key, None)
        root_stage_id == Len(staged)
        r == compile_lop(lops, lop_key, <<>>, staged, root_stage_id)
    IN [pop_graph |-> r.pop_graph,
        stage_graph |-> set_pop_key(r.stage_graph, root_stage_id, r.pop_key)]

InitComp(lops) ==
    /\ lop_graph = lops
    /\ compiled = None

(***************************************************************************)
(* QueryBlock::resolve_column (qst.rs).                                    *)
(***************************************************************************)
\* The cataloged tables: per column name, its ColId and DataType.
TableDescs ==
    [T1 |-> [a |-> [col_id |-> 0, datatype |-> "INT"],
             b |-> [col_id |-> 1, datatype |-> "STR"]],
     T2 |-> [c |-> [col_id |-> 0, datatype |-> "STR"],
             a |-> [col_id |-> 1, datatype |-> "STR"]]]

\* TableDesc::get_coldesc(colname): Option<(ColId, DataType)>
get_coldesc(desc, colname) ==
    IF colname \in DOMAIN desc THEN Some(desc[colname]) ELSE None

\* Quantifier::matches_name_or_alias(prefix)
matches_name_or_alias(qun, prefix) ==
    qun.name = prefix \/ (qun.alias.some /\ qun.alias.v = prefix)

\* The quantifiers of a query block after QueryBlock::resolve has set their
\* tabledesc: at most MaxQun, with ids in order, each over a cataloged table
\* and with or without an alias.
Quantifier(id, name, alias) ==
    [id |-> id, name |-> name, alias |-> alias, tabledesc |-> TableDescs[name]]

RECURSIVE QunLists(_)
QunLists(n) ==
    IF n = 0 THEN { <<>> }
    ELSE LET shorter == QunLists(n - 1)
         IN shorter \cup
            { Append(q, Quantifier(n, name, alias)) :
                q \in { r \in shorter : Len(r) = n - 1 },
                name \in DOMAIN TableDescs, alias \in {None, Some("x")} }

\* The column references: an optional prefix and a column name.
Prefixes == { None, Some("T1"), Some("T2"), Some("x") }
ColNames == { "a", "b", "c", "d" }

\* QueryBlockColidDispenser::new
ColidDispenserNew == [hashmap |-> EmptyMap, next_id |-> 0]

\* QueryBlockColidDispenser::next_id: [dispenser, id]
next_id(dispenser, quncol) ==
    LET nid == dispenser.next_id
        hashmap == or_insert(dispenser.hashmap, quncol, nid)
        e == hashmap[quncol]
    IN [dispenser |-> [hashmap |-> hashmap,
                       next_id |-> IF e = nid THEN nid + 1 ELSE nid],
        id |-> e]

\* resolve_column, the test of a quantifier, with the prefix ignored.
ConsideredAll(qun, prefix) == TRUE

\* resolve_column, the test of a quantifier: with a prefix the quantifiers
\* it names, without one every quantifier.
Considered(qun, prefix) ==
    IF prefix.some THEN matches_name_or_alias(qun, prefix.v) ELSE TRUE

\* resolve_column, curval: the column of the quantifier, if it is considered
\* and its table has one of that name.
CurVal(qun, prefix, colname) ==
    LET coldesc == get_coldesc(qun.tabledesc, colname)
    IN IF Considered(qun, prefix) /\ coldesc.some
       THEN Some([qun_id |-> qun.id, col_id |-> coldesc.v.col_id,
                  datatype |-> coldesc.v.datatype, qtuple_ix |-> 0])
       ELSE None

RECURSIVE ResolveFrom(_, _, _, _, _, _, _)
\* resolve_column, the for loop from quantifier i on, and the return:
\* [kind, quncol, column_maps, dispenser], kind being "Ok", "NotFound" or
\* "Ambiguous".
ResolveFrom(quns, i, prefix, colname, retval, column_maps, dispenser) ==
    IF i > Len(quns)
    THEN [kind |-> IF retval.some THEN "Ok" ELSE "NotFound", quncol |-> retval,
          column_maps |-> column_maps, dispenser |-> dispenser]
    ELSE Only({ IF ~curval.some
                THEN ResolveFrom(quns, i + 1, prefix, colname, retval,
                                 column_maps, dispenser)
                ELSE IF retval.some
                THEN [kind |-> "Ambiguous", quncol |-> None,
                      column_maps |-> column_maps, dispenser |-> dispenser]
                ELSE Only({ ResolveFrom(quns, i + 1, prefix, colname, curval,
                               [column_maps EXCEPT ![i] =
                                   (curval.v.col_id :> d.id) @@ @],
                               d.dispenser) :
                            d \in { next_id(dispenser, curval.v) } }) :
                curval \in { CurVal(quns[i], prefix, colname) } })

\* QueryBlock::resolve_column with a new dispenser and empty column maps.
resolve_column(quns, prefix, colname) ==
    ResolveFrom(quns, 1, prefix, colname, None,
                [i \in DOMAIN quns |-> EmptyMap], ColidDispenserNew)

\* A call of resolve_column that has not happened.
NoResolution == [kind |-> "none"]

InitResolve(quns, prefix, colname) ==
    resolution = [quns |-> quns, prefix |-> prefix, colname |-> colname,
                  ret |-> NoResolution]

(***************************************************************************)
(* QueryBlock::resolve and resolve_expr (qst.rs).                          *)
(***************************************************************************)
\* Expr::Column { prefix, colname } and Expr::QTupleOffset(ix)
AstColumn(prefix, colname) == [e |-> "Column", prefix |-> prefix, colname |-> colname]
QTupleOffset(ix) == [e |-> "QTupleOffset", ix |-> ix]

\* resolve_expr, the datatype of a literal
LiteralDatatype(d) == IF d.tag \in {"STR", "INT", "BOOL"} THEN d.tag ELSE "UNKNOWN"

\* What resolve_expr returns and leaves behind: Ok(datatype) or Err, the
\* expression as the graph now holds it, the column maps and the dispenser.
Resolved(ok, expr, datatype, column_maps, dispenser) ==
    [ok |-> ok, expr |-> expr, datatype |-> datatype,
     column_maps |-> column_maps, dispenser |-> dispenser]

\* resolve_expr, the Column arm: the node becomes QTupleOffset(quncol.qtuple_ix)
\* of the QunColumn that resolve_column returned.
resolve_expr_column(quns, expr, column_maps, dispenser) ==
    Only({ IF r.kind = "Ok"
           THEN Resolved(TRUE, QTupleOffset(r.quncol.v.qtuple_ix), r.quncol.v.datatype,
                         r.column_maps, r.dispenser)
           ELSE Resolved(FALSE, expr, "UNKNOWN", r.column_maps, r.dispenser) :
           r \in { ResolveFrom(quns, 1, expr.prefix, expr.colname, None,
                               column_maps, dispenser) } })

\* resolve_expr, the RelExpr arm after its two children: the datatypes of
\* the children must be equal.
resolve_expr_rel(expr, lhs, rhs) ==
    Resolved(lhs.datatype = rhs.datatype, RelExpr(expr.rel, lhs.expr, rhs.expr),
             IF lhs.datatype = rhs.datatype THEN "BOOL" ELSE "UNKNOWN",
             rhs.column_maps, rhs.dispenser)

\* QueryBlock::resolve_expr over an expression that is a column, a literal
\* or a comparison of two of these: the children first, in order, with `?`.
resolve_expr(quns, expr, column_maps, dispenser) ==
    IF expr.e = "Column" THEN resolve_expr_column(quns, expr, column_maps, dispenser)
    ELSE IF expr.e = "Literal"
    THEN Resolved(TRUE, expr, LiteralDatatype(expr.d), column_maps, dispenser)
    ELSE Only({ IF ~lhs.ok
                THEN Resolved(FALSE, RelExpr(expr.rel, lhs.expr, expr.rhs), "UNKNOWN",
                              lhs.column_maps, lhs.dispenser)
                ELSE Only({ IF ~rhs.ok
                            THEN Resolved(FALSE, RelExpr(expr.rel, lhs.expr, rhs.expr),
                                          "UNKNOWN", rhs.column_maps, rhs.dispenser)
                            ELSE resolve_expr_rel(expr, lhs, rhs) :
                            rhs \in { IF expr.rhs.e = "Column"
                                      THEN resolve_expr_column(quns, expr.rhs,
                                               lhs.column_maps, lhs.dispenser)
                                      ELSE Resolved(TRUE, expr.rhs,
                                               LiteralDatatype(expr.rhs.d),
                                               lhs.column_maps, lhs.dispenser) } }) :
                lhs \in { resolve_expr_column(quns, expr.lhs, column_maps, dispenser) } })

RECURSIVE resolve_select_list(_, _, _, _, _)
\* QueryBlock::resolve, `for ne in self.select_list.iter()` from entry i on:
\* [ok, select_list, column_maps, dispenser]
resolve_select_list(quns, select_list, i, column_maps, dispenser) ==
    IF i > Len(select_list)
    THEN [ok |-> TRUE, select_list |-> select_list,
          column_maps |-> column_maps, dispenser |-> dispenser]
    ELSE Only({ IF ~r.ok
                THEN [ok |-> FALSE, select_list |-> [select_list EXCEPT ![i] = r.expr],
                      column_maps |-> r.column_maps, dispenser |-> r.dispenser]
                ELSE resolve_select_list(quns, [select_list EXCEPT ![i] = r.expr],
                                         i + 1, r.column_maps, r.dispenser) :
                r \in { resolve_expr(quns, select_list[i], column_maps, dispenser) } })

\* What QueryBlock::resolve returns and leaves behind.
BlockResolved(ok, select_list, pred_list, column_maps, dispenser) ==
    [kind |-> IF ok THEN "Ok" ELSE "Err", select_list |-> select_list,
     pred_list |-> pred_list, column_maps |-> column_maps, dispenser |-> dispenser]

\* QueryBlock::resolve over quantifiers of cataloged tables: a new
\* dispenser, the select list, then the predicate if there is one.
resolve(quns, select_list, pred_list) ==
    Only({ IF ~sl.ok \/ ~pred_list.some
           THEN BlockResolved(sl.ok, sl.select_list, pred_list, sl.column_maps,
                              sl.dispenser)
           ELSE Only({ BlockResolved(p.ok, sl.select_list, Some(p.expr),
                                     p.column_maps, p.dispenser) :
                       p \in { resolve_expr(quns, pred_list.v, sl.column_maps,
                                            sl.dispenser) } }) :
           sl \in { resolve_select_list(quns, select_list, 1,
                                        [i \in DOMAIN quns |-> EmptyMap],
                                        ColidDispenserNew) } })

\* The column references of the expressions of a block.
BlockRefs ==
    { AstColumn(None, "a"), AstColumn(None, "b"), AstColumn(Some("T1"), "a"),
      AstColumn(Some("T2"), "c"), AstColumn(Some("x"), "a") }

\* The select lists of one or two columns.
SelectLists == { <<c>> : c \in BlockRefs } \cup { <<c, d>> : c, d \in BlockRefs }

\* The predicates: a column compared with a column or with a literal.
ColumnPreds == { RelExpr("=", c, d) : c, d \in BlockRefs }
LiteralPreds == { RelExpr("=", c, Literal(STR("s"))) : c \in BlockRefs }

InitBlock(quns, select_list, pred_list) ==
    qblock = [quns |-> quns, select_list |-> select_list, pred_list |-> pred_list,
              ret |-> NoResolution]

\* A block that is not resolved.
IdleBlock == InitBlock(<<>>, <<AstColumn(None, "a")>>, None)

(***************************************************************************)
(* Bitset (bitset.rs): bitsets that share one dictionary. A family bs is   *)
(* the dictionary (dict, rev_dict, next_id, each behind an Rc) and the     *)
(* bitmaps of the bitsets that hold it. The dictionaries of the model stay *)
(* far below the size of a Bitmap.                                         *)
(***************************************************************************)
\* Largest number of bitsets alive at one time.
MaxSets == 3

\* The elements that are set.
Elems == {"x", "y", "z"}

\* Bitset::new: an empty bitmap over a new dictionary.
BitsetNew ==
    [dict |-> EmptyMap, rev_dict |-> EmptyMap, next_id |-> 0, bitmaps |-> << {} >>]

\* A slip in Bitset::set: the element gets a new index whether the
\* dictionary has it or not.
set_fresh(bs, i, elem) ==
    [dict |-> (elem :> bs.next_id) @@ bs.dict,
     rev_dict |-> (bs.next_id :> elem) @@ bs.rev_dict,
     next_id |-> bs.next_id + 1,
     bitmaps |-> [bs.bitmaps EXCEPT ![i] = @ \cup {bs.next_id}]]

\* Bitset::set(elem) on bitset i
set(bs, i, elem) ==
    LET dict == or_insert(bs.dict, elem, bs.next_id)
        ix == dict[elem]
    IN [dict |-> dict,
        rev_dict |-> (ix :> elem) @@ bs.rev_dict,
        next_id |-> IF elem \in DOMAIN bs.dict THEN bs.next_id ELSE bs.next_id + 1,
        bitmaps |-> [bs.bitmaps EXCEPT ![i] = @ \cup {ix}]]

RECURSIVE BitmapIter(_)
\* Bitmap::into_iter: the indices of the bits that are set, ascending.
BitmapIter(bitmap) ==
    IF bitmap = {} THEN <<>>
    ELSE LET ix == CHOOSE m \in bitmap : \A n \in bitmap : m <= n
         IN <<ix>> \o BitmapIter(bitmap \ {ix})

\* Bitset::elements of bitset i
bitset_elements(bs, i) ==
    LET ixs == BitmapIter(bs.bitmaps[i])
    IN [k \in DOMAIN ixs |-> bs.rev_dict[ixs[k]]]

\* Clone for Bitset: a copy of the bitmap of bitset i, the same dictionary.
clone(bs, i) == [bs EXCEPT !.bitmaps = Append(@, bs.bitmaps[i])]

\* BitOrAssign: `a |= &b`
bitor_assign(bs, i, j) ==
    [bs EXCEPT !.bitmaps[i] = @ \cup bs.bitmaps[j]]

\* BitOr for Bitset: `a | &b` takes a by value and returns its clone with
\* the bitmap of b merged in; the result stands where a stood.
bitor(bs, i, j) ==
    [bs EXCEPT !.bitmaps[i] = @ \cup bs.bitmaps[j]]

\* BitAnd for Bitset: `a & &b` takes a by value; the result stands where a
\* stood.
bitand(bs, i, j) ==
    [bs EXCEPT !.bitmaps[i] = @ \cap bs.bitmaps[j]]

\* BitAnd for &Bitset: `&a & &b` returns a new bitset and keeps a.
bitand_ref(bs, i, j) ==
    [bs EXCEPT !.bitmaps = Append(@, bs.bitmaps[i] \cap bs.bitmaps[j])]

InitBitsets == bitsets = BitsetNew

(***************************************************************************)
(* Env::set_option (env.rs).                                               *)
(***************************************************************************)
\* str::to_uppercase on the strings the model uses.
to_uppercase ==
    ("PARALLEL_DEGREE" :> "PARALLEL_DEGREE") @@ ("parallel_degree" :> "PARALLEL_DEGREE")
    @@ ("Parallel_Degree" :> "PARALLEL_DEGREE") @@ ("PARSE_ONLY" :> "PARSE_ONLY")
    @@ ("parse_only" :> "PARSE_ONLY") @@ ("Parse_Only" :> "PARSE_ONLY")
    @@ ("PARSE" :> "PARSE") @@ ("nthreads" :> "NTHREADS")
    @@ ("TRUE" :> "TRUE") @@ ("true" :> "TRUE") @@ ("True" :> "TRUE")
    @@ ("T" :> "T") @@ ("t" :> "T") @@ ("YES" :> "YES") @@ ("yes" :> "YES")
    @@ ("Y" :> "Y") @@ ("y" :> "Y") @@ ("YE" :> "YE") @@ ("no" :> "NO")
    @@ ("false" :> "FALSE") @@ ("" :> "") @@ ("1" :> "1")

\* The option names and the values of a SET statement.
OptionNames ==
    { "PARALLEL_DEGREE", "parallel_degree", "Parallel_Degree", "PARSE_ONLY",
      "parse_only", "Parse_Only", "PARSE", "nthreads" }
StrValues ==
    { "TRUE", "true", "True", "T", "t", "YES", "yes", "Y", "y", "YE", "no",
      "false", "", "1" }
IntValues == -2 .. 2

\* Result<T, String>
Ok(x) == [ok |-> TRUE, v |-> x]
Err == [ok |-> FALSE]

\* `ival as usize` of an isize: the value pow64 * 2^64 + plus, which is ival
\* itself when ival is not negative and 2^64 + ival when it is.
as_usize(ival) == [pow64 |-> IF ival < 0 THEN 1 ELSE 0, plus |-> ival]

\* Env::get_boolean_option
get_boolean_option(value) ==
    IF value.tag = "STR"
    THEN Ok(to_uppercase[value.v] \in {"TRUE", "T", "YES", "Y"})
    ELSE Err

\* Env::get_int_option
get_int_option(value) ==
    IF value.tag = "INT" THEN Ok(value.v) ELSE Err

\* EnvSettings::new
EnvSettingsNew == [parallel_degree |-> None, parse_only |-> None]

\* Env::set_option with the setting cleared before its value is read.
set_option_clear(settings, name, value) ==
    LET upper == to_uppercase[name]
    IN IF upper = "PARALLEL_DEGREE"
       THEN IF get_int_option(value).ok
            THEN [ok |-> TRUE,
                  settings |-> [settings EXCEPT !.parallel_degree =
                                   Some(as_usize(get_int_option(value).v))]]
            ELSE [ok |-> FALSE,
                  settings |-> [settings EXCEPT !.parallel_degree = None]]
       ELSE IF upper = "PARSE_ONLY"
       THEN IF get_boolean_option(value).ok
            THEN [ok |-> TRUE,
                  settings |-> [settings EXCEPT !.parse_only =
                                   Some(get_boolean_option(value).v)]]
            ELSE [ok |-> FALSE,
                  settings |-> [settings EXCEPT !.parse_only = None]]
       ELSE [ok |-> FALSE, settings |-> settings]

\* Env::set_option: [ok, settings], ok being FALSE for Err.
set_option(settings, name, value) ==
    LET upper == to_uppercase[name]
    IN IF upper = "PARALLEL_DEGREE"
       THEN IF get_int_option(value).ok
            THEN [ok |-> TRUE,
                  settings |-> [settings EXCEPT !.parallel_degree =
                                   Some(as_usize(get_int_option(value).v))]]
            ELSE [ok |-> FALSE, settings |-> settings]
       ELSE IF upper = "PARSE_ONLY"
       THEN IF get_boolean_option(value).ok
            THEN [ok |-> TRUE,
                  settings |-> [settings EXCEPT !.parse_only =
                                   Some(get_boolean_option(value).v)]]
            ELSE [ok |-> FALSE, settings |-> settings]
       ELSE [ok |-> FALSE, settings |-> settings]

\* A call of set_option that has not happened.
NoSetOption == [called |-> FALSE]

\* Env::new
InitEnv ==
    env = [settings |-> EnvSettingsNew, before |-> EnvSettingsNew,
           last |-> NoSetOption]

(***************************************************************************)
(* The (flow, stage, task) tuple of a RunTask message (task.rs).           *)
(***************************************************************************)
\* bincode::serialize of a Flow node and bincode::deserialize of its bytes:
\* the fields in order.
serialize_node(node) == <<node.endpoint, node.children, node.npartitions>>
deserialize_node(bytes) == Node(bytes[1], bytes[2], bytes[3])

\* ... of a Flow: its nodes in order.
serialize_flow(f) == [i \in DOMAIN f |-> serialize_node(f[i])]
deserialize_flow(bytes) == [i \in DOMAIN bytes |-> deserialize_node(bytes[i])]

\* ... of a Stage: head_node_id, npartitions_producer, npartitions_consumer.
serialize_stage(stage) ==
    <<stage.head_node_id, stage.npartitions_producer, stage.npartitions_consumer>>
deserialize_stage(bytes) ==
    [head_node_id |-> bytes[1], npartitions_producer |-> bytes[2],
     npartitions_consumer |-> bytes[3]]

\* ... of a Task: partition_id; contexts is #[serde(skip)], so it is not
\* written, and the decoded task has HashMap::default().
serialize_task(task) == <<task.partition_id>>
deserialize_task_skip_all(bytes) == [partition_id |-> 0, contexts |-> EmptyMap]
deserialize_task(bytes) == [partition_id |-> bytes[1], contexts |-> EmptyMap]

\* bincode::serialize(&(flow, self, task)) in Stage::run, and
\* bincode::deserialize in the worker.
serialize(t2sa) ==
    <<serialize_flow(t2sa.flow), serialize_stage(t2sa.stage),
      serialize_task(t2sa.task)>>
deserialize(encoded) ==
    [flow |-> deserialize_flow(encoded[1]), stage |-> deserialize_stage(encoded[2]),
     task |-> deserialize_task(encoded[3])]

\* The operator-runtime maps a task can hold: none, or an open line iterator
\* of node 1.
TaskContexts == { EmptyMap, (1 :> Some(2)) }

\* The tuples that Stage::run serializes: a flow, one of its stages, and a
\* task of one of the partitions of the stage.
WireTuples ==
    UNION { UNION { { [flow |-> f, stage |-> make_stages(f)[k],
                       task |-> [partition_id |-> pid, contexts |-> c]] :
                        pid \in 0 .. (npartitions(make_stages(f)[k]) - 1),
                        c \in TaskContexts } :
                    k \in DOMAIN make_stages(f) } :
            f \in FlowSet }

IdleWire ==
    [flow |-> FlowOneStage(1), stage |-> make_stages(FlowOneStage(1))[1],
     task |-> [partition_id |-> 0, contexts |-> EmptyMap]]

InitWire(t2sa) == wire = [sent |-> t2sa, decoded |-> None]

\* The values outside a specification's own part, as they are constructed.
InitLib ==
    /\ InitRegs
    /\ InitResolve(<<>>, None, "a")
    /\ InitEnv
    /\ InitWire(IdleWire)
    /\ IdleBlock
    /\ InitBitsets

\* The tasks of a stage over the CSV operator csv, one per partition, as
\* Task::new leaves them.
ScanTasks(csv) == 0 .. (Len(csv.partitions) - 1)

InitScan(csv) ==
    /\ scanCsv = csv
    /\ scanCtx = [pid \in ScanTasks(csv) |-> None]
    /\ scanRow = [pid \in ScanTasks(csv) |-> [r \in Registers |-> NULL]]
    /\ scanOut = [pid \in ScanTasks(csv) |-> <<>>]
    /\ scanEnded = [pid \in ScanTasks(csv) |-> FALSE]
    /\ scanPanicked = [pid \in ScanTasks(csv) |-> FALSE]
    /\ scanLate = [pid \in ScanTasks(csv) |-> FALSE]

Init ==
    /\ flow \in FlowSet
    /\ InitSched
    /\ InitTask(IdleNode, 0)
    /\ InitScan(IdleNode.csv)
    /\ InitOps(IdleOp)
    /\ InitComp(IdleLop)
    /\ InitLib

\* Flow::run is given a flow of one stage: scan -> emit.
InitOneStage ==
    /\ \E a \in 1 .. MaxPart : flow = FlowOneStage(a)
    /\ InitSched
    /\ InitTask(IdleNode, 0)
    /\ InitScan(IdleNode.csv)
    /\ InitOps(IdleOp)
    /\ InitComp(IdleLop)
    /\ InitLib

InitPop ==
    /\ flow = FlowOneStage(1)
    /\ InitSched
    /\ \E node \in PopNodes : \E pid \in 0 .. (node.props.npartitions - 1) :
          InitTask(node, pid)
    /\ InitScan(IdleNode.csv)
    /\ InitOps(IdleOp)
    /\ InitComp(IdleLop)
    /\ InitLib

InitOpsSpec ==
    /\ flow = FlowOneStage(1)
    /\ InitSched
    /\ InitTask(IdleNode, 0)
    /\ InitScan(IdleNode.csv)
    /\ \E node \in OpNodes : InitOps(node)
    /\ InitComp(IdleLop)
    /\ InitLib

InitCompSpec ==
    /\ flow = FlowOneStage(1)
    /\ InitSched
    /\ InitTask(IdleNode, 0)
    /\ InitScan(IdleNode.csv)
    /\ InitOps(IdleOp)
    /\ \E g \in LopGraphs : \E lops \in DecoratedLops(g) : InitComp(lops)
    /\ InitLib

\* The scheduler, the tasks and the compiler at rest.
InitRest ==
    /\ flow = FlowOneStage(1)
    /\ InitSched
    /\ InitTask(IdleNode, 0)
    /\ InitScan(IdleNode.csv)
    /\ InitOps(IdleOp)
    /\ InitComp(IdleLop)

InitRegsSpec ==
    /\ InitRest
    /\ InitLib

InitResolveSpec ==
    /\ InitRest
    /\ InitRegs
    /\ \E quns \in QunLists(MaxQun) : \E prefix \in Prefixes :
          \E colname \in ColNames : InitResolve(quns, prefix, colname)
    /\ InitEnv
    /\ InitWire(IdleWire)
    /\ IdleBlock
    /\ InitBitsets

InitBlockSpec ==
    /\ InitRest
    /\ InitRegs
    /\ InitResolve(<<>>, None, "a")
    /\ InitEnv
    /\ InitWire(IdleWire)
    /\ \E quns \in QunLists(MaxQun) : \E select_list \in SelectLists :
          \/ InitBlock(quns, select_list, None)
          \/ \E p \in ColumnPreds : InitBlock(quns, select_list, Some(p))
          \/ \E p \in LiteralPreds : InitBlock(quns, select_list, Some(p))
    /\ InitBitsets

InitBitsetSpec ==
    /\ InitRest
    /\ InitLib

InitEnvSpec ==
    /\ InitRest
    /\ InitLib

InitWireSpec ==
    /\ InitRest
    /\ InitRegs
    /\ InitResolve(<<>>, None, "a")
    /\ InitEnv
    /\ \E t2sa \in WireTuples : InitWire(t2sa)
    /\ IdleBlock
    /\ InitBitsets

\* The CSV operators of the scan nodes.
ScanCsvs == { node.csv : node \in PopNodes }

InitScanSpec ==
    /\ flow = FlowOneStage(1)
    /\ InitSched
    /\ InitTask(IdleNode, 0)
    /\ \E csv \in ScanCsvs : InitScan(csv)
    /\ InitOps(IdleOp)
    /\ InitComp(IdleLop)
    /\ InitLib

\* The CSVDir operators: the scan nodes that read what a Repartition wrote.
ScanDirs ==
    { [dirname_prefix |-> "stage", coltypes |-> csv.coltypes,
       header |-> csv.header, input_map |-> csv.input_map,
       partitions |-> csv.partitions] : csv \in ScanCsvs }

InitScanAnySpec ==
    /\ flow = FlowOneStage(1)
    /\ InitSched
    /\ InitTask(IdleNode, 0)
    /\ \E csv \in ScanCsvs \cup ScanDirs : InitScan(csv)
    /\ InitOps(IdleOp)
    /\ InitComp(IdleLop)
    /\ InitLib

(***************************************************************************)
(* The scheduler thread.                                                   *)
(***************************************************************************)
\* Flow::run, entry: make_stages, then the first stage.
FlowRun ==
    /\ mainPc = "idle"
    /\ ~flowRan
    /\ flowRan' = TRUE
    /\ stages' = make_stages(flow)
    /\ si' = 1
    /\ pi' = 0
    /\ mainPc' = "run"
    /\ UNCHANGED <<flow, threadsTaken, wstate, queue, cur, t2s, ji, closed,
                   created, sent, started, finished, nEndSent, dropped, joined,
                   popVars, scanVars, opVars, compVars, libVars>>

\* Stage::run, one iteration of `for partition_id in 0..npartitions`: build
\* the task, pick the worker, send RunTask. After the last partition the for
\* loop of Flow::run goes on to the next stage, or Flow::run returns.
StageRunStep ==
    /\ mainPc = "run"
    /\ LET stage == stages[si]
           task == [stage |-> stage.head_node_id, part |-> pi]
           last == pi + 1 >= npartitions(stage)
       IN /\ created' = Append(created, task)
          /\ IF size = 0
             THEN \* partition_id % 0 panics
                  /\ mainPc' = "panicked"
                  /\ UNCHANGED <<queue, sent, si, pi>>
             ELSE /\ queue' = Send(queue, thread_id(pi),
                                   RunTaskMsg(task.stage, task.part))
                  /\ sent' = sent \cup {[w |-> thread_id(pi),
                                         stage |-> task.stage, part |-> task.part]}
                  /\ IF ~last
                     THEN /\ pi' = pi + 1
                          /\ UNCHANGED <<si, mainPc>>
                     ELSE /\ pi' = 0
                          /\ si' = si + 1
                          /\ mainPc' = IF si + 1 > Len(stages) THEN "idle" ELSE "run"
    /\ UNCHANGED <<flow, threadsTaken, wstate, cur, t2s, stages, ji, flowRan,
                   closed, started, finished, nEndSent, dropped, joined,
                   popVars, scanVars, opVars, compVars, libVars>>

RECURSIVE SendEndTasks(_, _)
SendEndTasks(q, w) ==
    IF w >= NWorkers THEN q ELSE SendEndTasks(Send(q, w, EndTaskMsg), w + 1)

\* ThreadPool::close_all
CloseAll ==
    /\ mainPc = "idle"
    /\ ~closed
    /\ closed' = TRUE
    /\ queue' = SendEndTasks(queue, 0)
    /\ nEndSent' = [w \in Workers |-> nEndSent[w] + 1]
    /\ UNCHANGED <<flow, threadsTaken, wstate, cur, t2s, mainPc, stages, si, pi,
                   ji, flowRan, created, sent, started, finished, dropped,
                   joined,
                   popVars, scanVars, opVars, compVars, libVars>>

\* ThreadPool::join, entry: self.threads.take() and threads.unwrap()
JoinStart ==
    /\ mainPc = "idle"
    /\ IF threadsTaken
       THEN /\ mainPc' = "panicked"
            /\ UNCHANGED <<threadsTaken, ji>>
       ELSE /\ threadsTaken' = TRUE
            /\ ji' = 0
            /\ mainPc' = "join"
    /\ UNCHANGED <<flow, wstate, queue, cur, t2s, stages, si, pi, flowRan,
                   closed, created, sent, started, finished, nEndSent, dropped,
                   joined, popVars, scanVars, opVars, compVars, libVars>>

\* ThreadPool::join, one iteration: thrd.join() blocks until the thread is
\* gone, and unwrap() panics when that thread had panicked.
JoinThread ==
    /\ mainPc = "join"
    /\ wstate[ji] \in {"exited", "panicked"}
    /\ IF wstate[ji] = "panicked"
       THEN /\ mainPc' = "panicked"
            /\ UNCHANGED <<ji, joined>>
       ELSE /\ ji' = ji + 1
            /\ mainPc' = IF ji + 1 >= NWorkers THEN "idle" ELSE "join"
            /\ joined' = (ji + 1 >= NWorkers)
    /\ UNCHANGED <<flow, threadsTaken, wstate, queue, cur, t2s, stages, si, pi,
                   flowRan, closed, created, sent, started, finished, nEndSent, dropped,
                   popVars, scanVars, opVars, compVars, libVars>>

(***************************************************************************)
(* The worker threads: `for msg in s2t_channel_rx { match msg {...} }`.    *)
(***************************************************************************)
\* The EndTask arm: break; the thread ends and its receiver is dropped.
WorkerEndTask(w) ==
    /\ wstate[w] = "recv"
    /\ queue[w] # <<>>
    /\ Head(queue[w]).type = "EndTask"
    /\ wstate' = [wstate EXCEPT ![w] = "exited"]
    /\ queue' = [queue EXCEPT ![w] = <<>>]
    /\ dropped' = dropped \cup Dropped(w)
    /\ UNCHANGED <<flow, threadsTaken, cur, t2s, mainPc, stages, si, pi, ji,
                   flowRan, closed, created, sent, started, finished, nEndSent,
                   joined,
                   popVars, scanVars, opVars, compVars, libVars>>

\* A slip in the worker loop: the worker takes the RunTask sent last instead
\* of the message at the head of its channel.
WorkerRunTaskLast(w) ==
    /\ wstate[w] = "recv"
    /\ queue[w] # <<>>
    /\ Head(queue[w]).type = "RunTask"
    /\ queue[w][Len(queue[w])].type = "RunTask"
    /\ LET m == queue[w][Len(queue[w])]
       IN /\ cur' = [cur EXCEPT ![w] = [stage |-> m.stage, part |-> m.part]]
          /\ started' = started \cup {[w |-> w, stage |-> m.stage, part |-> m.part]}
    /\ wstate' = [wstate EXCEPT ![w] = "running"]
    /\ queue' = [queue EXCEPT ![w] = SubSeq(@, 1, Len(@) - 1)]
    /\ UNCHANGED <<flow, threadsTaken, t2s, mainPc, stages, si, pi, ji, flowRan,
                   closed, created, sent, finished, nEndSent, dropped, joined,
                   popVars, scanVars, opVars, compVars, libVars>>

\* The RunTask arm, first half: deserialize (flow, stage, task).
WorkerRunTask(w) ==
    /\ wstate[w] = "recv"
    /\ queue[w] # <<>>
    /\ Head(queue[w]).type = "RunTask"
    /\ LET m == Head(queue[w])
       IN /\ cur' = [cur EXCEPT ![w] = [stage |-> m.stage, part |-> m.part]]
          /\ started' = started \cup {[w |-> w, stage |-> m.stage, part |-> m.part]}
    /\ wstate' = [wstate EXCEPT ![w] = "running"]
    /\ queue' = [queue EXCEPT ![w] = Tail(@)]
    /\ UNCHANGED <<flow, threadsTaken, t2s, mainPc, stages, si, pi, ji, flowRan,
                   closed, created, sent, finished, nEndSent, dropped, joined,
                   popVars, scanVars, opVars, compVars, libVars>>

\* The RunTask arm, second half. Task::run makes ONE call of
\* next(flow, stage, task, true) on the stage's head node and drops its
\* Result; whatever it was, the worker then sends TaskEnded.
WorkerTaskEnded(w) ==
    /\ wstate[w] = "running"
    /\ \E res \in NextResults :
          finished' = finished \cup {[w |-> w, stage |-> cur[w].stage,
                                      part |-> cur[w].part, res |-> res]}
    /\ t2s' = t2s + 1
    /\ wstate' = [wstate EXCEPT ![w] = "recv"]
    /\ cur' = [cur EXCEPT ![w] = NoTask]
    /\ UNCHANGED <<flow, threadsTaken, queue, mainPc, stages, si, pi, ji,
                   flowRan, closed, created, sent, started, nEndSent, dropped, joined,
                   popVars, scanVars, opVars, compVars, libVars>>

\* The RunTask arm when next() panics: the thread unwinds, nothing is sent,
\* the receiver is dropped with whatever was still queued.
WorkerTaskPanic(w) ==
    /\ wstate[w] = "running"
    /\ finished' = finished \cup {[w |-> w, stage |-> cur[w].stage,
                                   part |-> cur[w].part, res |-> "Panic"]}
    /\ wstate' = [wstate EXCEPT ![w] = "panicked"]
    /\ queue' = [queue EXCEPT ![w] = <<>>]
    /\ cur' = [cur EXCEPT ![w] = NoTask]
    /\ dropped' = dropped \cup Dropped(w)
    /\ UNCHANGED <<flow, threadsTaken, t2s, mainPc, stages, si, pi, ji, flowRan,
                   closed, created, sent, started, nEndSent, joined,
                   popVars, scanVars, opVars, compVars, libVars>>

Next ==
    \/ FlowRun
    \/ StageRunStep
    \/ CloseAll
    \/ JoinStart
    \/ JoinThread
    \/ \E w \in Workers : WorkerEndTask(w)
    \/ \E w \in Workers : WorkerRunTask(w)
    \/ \E w \in Workers : WorkerTaskEnded(w)
    \/ \E w \in Workers : WorkerTaskPanic(w)

Spec == Init /\ [][Next]_vars

\* The scheduler and the workers over the flows of one stage.
SpecOneStage == InitOneStage /\ [][Next]_vars

(***************************************************************************)
(* A caller pulling the rows of a scan node through the wrapper.           *)
(***************************************************************************)
\* One call of POPKey::next(flow, stage, task, is_head) by a thread that has
\* not panicked.
PopNext ==
    /\ popLast.ret # "Panic"
    /\ \E is_head \in BOOLEAN :
          LET r == POPKeyNext(popNode, task_partition_id, contexts, task_row, is_head)
          IN /\ contexts' = r.contexts
             /\ task_row' = r.row
             /\ popLast' = r.last
    /\ UNCHANGED <<popNode, task_partition_id, schedVars, scanVars, opVars, compVars, libVars>>

NextPop == PopNext

SpecPop == InitPop /\ [][NextPop]_vars

(***************************************************************************)
(* The tasks of a stage, one per partition, each pulling the CSV operator. *)
(***************************************************************************)
\* One call of CSV::next by the task of partition pid, on a thread that has
\* not panicked.
ScanNext(pid) ==
    /\ ~IsDir(scanCsv)
    /\ ~scanPanicked[pid]
    /\ LET r == CsvNext(scanCsv, pid, scanCtx[pid], scanRow[pid])
       IN /\ scanCtx' = [scanCtx EXCEPT ![pid] = r.contexts]
          /\ scanRow' = [scanRow EXCEPT ![pid] = r.row]
          /\ scanOut' = [scanOut EXCEPT ![pid] =
                            IF r.ret = "OkTrue" THEN Append(@, r.row) ELSE @]
          /\ scanEnded' = [scanEnded EXCEPT ![pid] = @ \/ r.ret = "OkFalse"]
          /\ scanPanicked' = [scanPanicked EXCEPT ![pid] = r.ret = "Panic"]
          /\ scanLate' = [scanLate EXCEPT ![pid] =
                             @ \/ (scanEnded[pid] /\ r.ret = "OkTrue")]
    /\ UNCHANGED <<scanCsv, schedVars, popVars, opVars, compVars, libVars>>

NextScan == \E pid \in ScanTasks(scanCsv) : ScanNext(pid)

SpecScan == InitScanSpec /\ [][NextScan]_vars

\* One call of CSVDir::next by the task of partition pid, on a thread that
\* has not panicked.
ScanDirNext(pid) ==
    /\ IsDir(scanCsv)
    /\ ~scanPanicked[pid]
    /\ \E r \in { CsvDirNext(scanCsv, pid, scanCtx[pid], scanRow[pid]) } :
          /\ scanCtx' = [scanCtx EXCEPT ![pid] = r.contexts]
          /\ scanRow' = [scanRow EXCEPT ![pid] = r.row]
          /\ scanOut' = [scanOut EXCEPT ![pid] =
                            IF r.ret = "OkTrue" THEN Append(@, r.row) ELSE @]
          /\ scanEnded' = [scanEnded EXCEPT ![pid] = @ \/ r.ret = "OkFalse"]
          /\ scanPanicked' = [scanPanicked EXCEPT ![pid] = r.ret = "Panic"]
          /\ scanLate' = [scanLate EXCEPT ![pid] =
                             @ \/ (scanEnded[pid] /\ r.ret = "OkTrue")]
    /\ UNCHANGED <<scanCsv, schedVars, popVars, opVars, compVars, libVars>>

NextScanAny ==
    \E pid \in ScanTasks(scanCsv) :
        \/ ScanNext(pid)
        \/ ScanDirNext(pid)

SpecScanAny == InitScanAnySpec /\ [][NextScanAny]_vars

(***************************************************************************)
(* A task pulling a HashJoin, a Repartition or an Aggregation.             *)
(***************************************************************************)
\* One call of POPKey::next on the root by a thread that has not panicked.
OpNext(kind) ==
    /\ opNode.kind = kind
    /\ opLast.ret # "Panic"
    /\ opCalls < MaxCalls
    /\ \E r \in { OpKeyNext(opNode, 0, opCtx, opRow) } :
          /\ opCtx' = r.contexts
          /\ opRow' = r.row
          /\ opLast' = [ret |-> r.ret, pulls |-> r.pulls, eof |-> r.eof]
    /\ opCalls' = opCalls + 1
    /\ UNCHANGED <<opNode, shuffle, schedVars, popVars, scanVars, compVars, libVars>>

HashJoinCall == OpNext("HashJoin")

RepartitionCall == OpNext("Repartition")

AggregationCall == OpNext("Aggregation")

NextOps ==
    \/ HashJoinCall
    \/ RepartitionCall
    \/ AggregationCall

SpecOps == InitOpsSpec /\ [][NextOps]_vars

(***************************************************************************)
(* The compilation of a logical plan.                                      *)
(***************************************************************************)
\* One call of POP::compile.
Compile ==
    /\ ~compiled.some
    /\ compiled' = Some(compile(lop_graph))
    /\ UNCHANGED <<lop_graph, schedVars, popVars, scanVars, opVars, libVars>>

NextCompile == Compile

SpecCompile == InitCompSpec /\ [][NextCompile]_vars

(***************************************************************************)
(* A compilation asking a RegisterAllocator for registers.                 *)
(***************************************************************************)
\* One call of get_id(quncol); gets records the key and the id returned.
GetId(quncol) ==
    /\ Len(regalloc.gets) < MaxGets
    /\ \E r \in { get_id(regalloc.ra, quncol) } :
          regalloc' = [ra |-> r.ra,
                       gets |-> Append(regalloc.gets,
                                       [quncol |-> quncol, id |-> r.id])]
    /\ UNCHANGED <<resolution, env, wire, qblock, bitsets, schedVars, popVars, scanVars, opVars,
                   compVars>>

NextRegs == \E quncol \in QunCols : GetId(quncol)

SpecRegs == InitRegsSpec /\ [][NextRegs]_vars

(***************************************************************************)
(* The resolution of a column reference.                                   *)
(***************************************************************************)
\* One call of QueryBlock::resolve_column.
ResolveColumn ==
    /\ resolution.ret.kind = "none"
    /\ resolution' = [resolution EXCEPT !.ret =
                         resolve_column(resolution.quns, resolution.prefix,
                                        resolution.colname)]
    /\ UNCHANGED <<regalloc, env, wire, qblock, bitsets, schedVars, popVars, scanVars, opVars,
                   compVars>>

NextResolve == ResolveColumn

SpecResolve == InitResolveSpec /\ [][NextResolve]_vars

\* One call of QueryBlock::resolve.
Resolve ==
    /\ qblock.ret.kind = "none"
    /\ qblock' = [qblock EXCEPT !.ret =
                     resolve(qblock.quns, qblock.select_list, qblock.pred_list)]
    /\ UNCHANGED <<regalloc, resolution, env, wire, bitsets, schedVars, popVars,
                   scanVars, opVars, compVars>>

NextBlock == Resolve

SpecBlock == InitBlockSpec /\ [][NextBlock]_vars

(***************************************************************************)
(* Operations on the bitsets of one dictionary.                            *)
(***************************************************************************)
\* The rest of the state, which no Bitset operation touches.
BitsetFrame ==
    UNCHANGED <<regalloc, resolution, env, wire, qblock, schedVars, popVars,
                scanVars, opVars, compVars>>

BitsetSet(i, elem) == bitsets' = set(bitsets, i, elem) /\ BitsetFrame

BitsetClone(i) ==
    /\ Len(bitsets.bitmaps) < MaxSets
    /\ bitsets' = clone(bitsets, i)
    /\ BitsetFrame

BitsetOrAssign(i, j) == bitsets' = bitor_assign(bitsets, i, j) /\ BitsetFrame

BitsetOr(i, j) == bitsets' = bitor(bitsets, i, j) /\ BitsetFrame

BitsetAnd(i, j) == bitsets' = bitand(bitsets, i, j) /\ BitsetFrame

BitsetAndRef(i, j) ==
    /\ Len(bitsets.bitmaps) < MaxSets
    /\ bitsets' = bitand_ref(bitsets, i, j)
    /\ BitsetFrame

\* The bitsets alive.
Sets == DOMAIN bitsets.bitmaps

NextBitset ==
    \/ \E i \in Sets : \E elem \in Elems : BitsetSet(i, elem)
    \/ \E i \in Sets : BitsetClone(i)
    \/ \E i, j \in Sets : BitsetOrAssign(i, j)
    \/ \E i, j \in Sets : BitsetOr(i, j)
    \/ \E i, j \in Sets : BitsetAnd(i, j)
    \/ \E i, j \in Sets : BitsetAndRef(i, j)

SpecBitset == InitBitsetSpec /\ [][NextBitset]_vars

(***************************************************************************)
(* SET statements on the environment.                                      *)
(***************************************************************************)
\* One call of Env::set_option(name, value).
SetOption(name, value) ==
    /\ \E r \in { set_option(env.settings, name, value) } :
          env' = [settings |-> r.settings, before |-> env.settings,
                  last |-> [called |-> TRUE, name |-> name, value |-> value,
                            ok |-> r.ok]]
    /\ UNCHANGED <<regalloc, resolution, wire, qblock, bitsets, schedVars, popVars, scanVars,
                   opVars, compVars>>

NextEnv ==
    \E name \in OptionNames :
        \/ \E t \in StrValues : SetOption(name, STR(t))
        \/ \E i \in IntValues : SetOption(name, INT(i))
        \/ \E b \in BOOLEAN : SetOption(name, BOOL(b))
        \/ SetOption(name, NULL)

SpecEnv == InitEnvSpec /\ [][NextEnv]_vars

(***************************************************************************)
(* A worker decoding a RunTask message.                                    *)
(***************************************************************************)
\* The worker's bincode::deserialize of the bytes that Stage::run made with
\* bincode::serialize.
WorkerDecode ==
    /\ ~wire.decoded.some
    /\ wire' = [wire EXCEPT !.decoded = Some(deserialize(serialize(wire.sent)))]
    /\ UNCHANGED <<regalloc, resolution, env, qblock, bitsets, schedVars, popVars, scanVars,
                   opVars, compVars>>

NextWire == WorkerDecode

SpecWire == InitWireSpec /\ [][NextWire]_vars

(***************************************************************************)
(* Properties of the scheduler.                                            *)
(***************************************************************************)
RECURSIVE EndpointsBelow(_, _)
\* The stage heads met going down from node n, stopping at each endpoint.
EndpointsBelow(f, n) ==
    IF f[n].endpoint THEN {n}
    ELSE UNION { EndpointsBelow(f, f[n].children[i]) : i \in DOMAIN f[n].children }

\* The child stages of the stage whose head node is top.
ChildStages(f, top) ==
    UNION { EndpointsBelow(f, f[top].children[i]) : i \in DOMAIN f[top].children }

\* Task (stage, part) ran to the end of Task::run and its TaskEnded was sent.
ReportedEnded(stage, part) ==
    \E x \in finished : x.stage = stage /\ x.part = part /\ x.res \in NextResults

AllTasksEnded(f, stage) ==
    \A p \in 0 .. (StageNew(stage, f).npartitions_producer - 1) :
        ReportedEnded(stage, p)

\* C1: stage ordering. No task of a parent stage is dispatched (RunTask sent)
\* or started on a worker before every task of each of its child stages has
\* completed and reported TaskEnded. (The sets only grow, so a task that is
\* in sent or started while a child task has not ended was dispatched or
\* started before that child task ended.)
C1_StageOrdering ==
    \A s \in sent \cup started :
        \A c \in ChildStages(flow, s.stage) : AllTasksEnded(flow, c)

\* C2: task execution loop. A task stops calling next() on its root operator
\* only after a call returned Ok(false); it never stops after a call that
\* returned Ok(true).
C2_TaskLoopUntilFalse ==
    \A x \in finished : x.res # "OkTrue"

\* C3: dispatch mapping. The RunTask of partition_id p is sent on the
\* dispatch channel of worker p mod worker_count and on no other; so it is
\* queued at, and started by, that worker only.
C3_DispatchMapping ==
    /\ \A s \in sent : s.w = s.part % NWorkers
    /\ \A w \in Workers : \A i \in DOMAIN queue[w] :
          queue[w][i].type = "RunTask" => w = queue[w][i].part % NWorkers
    /\ \A s \in started : s.w = s.part % NWorkers

\* A partition id beyond the pool size was dispatched (the modulus wraps).
C3_Witness ==
    \E s \in sent : s.part >= NWorkers /\ s.w = s.part % NWorkers

\* The tasks Task::new built for the stage headed by node `head`, in order.
CreatedFor(head) == SelectSeq(created, LAMBDA t : t.stage = head)

\* C4: stage expansion. A stage that has been run created exactly
\* npartitions_producer tasks, partition ids 0, 1, .., npartitions_producer-1,
\* each once; and no task is ever created twice or outside that range.
C4_StageExpansion ==
    /\ \A k \in DOMAIN stages :
          k < si =>
             LET cs == CreatedFor(stages[k].head_node_id)
             IN /\ Len(cs) = stages[k].npartitions_producer
                /\ \A i \in DOMAIN cs : cs[i].part = i - 1
    /\ \A i \in DOMAIN created :
          created[i].part \in
             0 .. (StageNew(created[i].stage, flow).npartitions_producer - 1)
    /\ \A i, j \in DOMAIN created : i # j => created[i] # created[j]

\* A stage of several partitions, whose consumer count differs, has been run.
C4_Witness ==
    /\ si > 1
    /\ stages[1].npartitions_producer >= 2
    /\ stages[1].npartitions_producer # stages[1].npartitions_consumer
    /\ Len(CreatedFor(stages[1].head_node_id)) = stages[1].npartitions_producer

\* TaskEnded messages the workers have sent on the response channel.
AcksSent == Cardinality({ x \in finished : x.res \in NextResults })
\* TaskEnded messages the scheduler has received from the response channel.
AcksConsumed == AcksSent - t2s

RECURSIVE TasksUpTo(_)
\* The number of tasks of the first k stages.
TasksUpTo(k) ==
    IF k = 0 THEN 0 ELSE stages[k].npartitions_producer + TasksUpTo(k - 1)

\* C5: completion acknowledgement. Every task that ran was run by the worker
\* its RunTask was sent to, there are never more TaskEnded than RunTask sent,
\* and the scheduler consumes the acknowledgements to decide that a stage is
\* complete: when it is done with a stage it has received one TaskEnded for
\* each task of that stage and of the stages before it.
C5_CompletionAck ==
    /\ AcksSent <= Cardinality(sent)
    /\ \A x \in finished : [w |-> x.w, stage |-> x.stage, part |-> x.part] \in sent
    /\ \A k \in DOMAIN stages : k < si => AcksConsumed >= TasksUpTo(k)

\* Stages a task of which returned Err from next().
FailedStages == { x.stage : x \in { y \in finished : y.res = "Err" } }

C7_PanicReported ==
    /\ t2s >= Cardinality(finished)
    /\ \A d \in dropped : wstate[d.w] # "panicked"

\* C8: graceful shutdown. close_all() sends one EndTask to every worker;
\* when join() has returned every worker thread has exited; and no RunTask
\* sent to a worker before its EndTask is lost unexecuted.
C8_GracefulShutdown ==
    /\ \A w \in Workers : nEndSent[w] = (IF closed THEN 1 ELSE 0)
    /\ joined => \A w \in Workers : wstate[w] = "exited"
    /\ \A d \in dropped : ~d.beforeEnd

(***************************************************************************)
(* Properties of the pull wrapper.                                         *)
(***************************************************************************)
\* C9: predicate filtering. POPKey::next called with is_head = true returns
\* Ok(true) only for a row on which every predicate of the node evaluated to
\* BOOL(true).
C9_PredicateFiltering ==
    (popLast.ret = "OkTrue" /\ popLast.is_head)
        => eval_predicates(popNode.props, task_row) = "true"

\* The registers as a row of NRegs data, in register order.
RegisterRow == [i \in 1 .. NRegs |-> task_row[i - 1]]

\* C10: projection. When the node has emitcols and the row passed the
\* predicates, the row the caller sees after Ok(true) is the projected row:
\* one datum per emit column, in emit-column order.
C10_Projection ==
    (/\ popLast.ret = "OkTrue"
     /\ popNode.props.emitcols.some
     /\ popLast.row_passed = "true")
        => RegisterRow = eval_emitcols(popNode.props, task_row).v

\* C11: a predicate that yields a datum that is no BOOL makes the call of
\* POPKey::next return an Err: the call still returns to its caller, and it
\* returns neither Ok(true) nor Ok(false).
C11_TypeMismatch ==
    popLast.row_passed = "panic" => popLast.ret = "Err"

(***************************************************************************)
(* Properties of the scan.                                                 *)
(***************************************************************************)
\* The index of the line that the first call of CSV::next of a task read or
\* found missing, from the iterator the call left behind: a call that
\* returned Ok(false) has not moved the iterator, any other has moved it by
\* one line.
FirstLineRead(ctx_after, ended_after) ==
    IF ended_after THEN ctx_after.v ELSE ctx_after.v - 1

\* C12: CSV header handling. The first next() of a task skips the first line
\* of its partition exactly when task.partition_id == 0 and the header flag
\* of the table is true.
C12_HeaderHandling ==
    [][ \A pid \in ScanTasks(scanCsv) :
          (~scanCtx[pid].some /\ scanCtx'[pid].some)
              => ((FirstLineRead(scanCtx'[pid], scanEnded'[pid]) = 2)
                    <=> (pid = 0 /\ scanCsv.header)) ]_vars

RECURSIVE Flatten(_, _)
\* The sequences q[1], ..., q[n] one after the other.
Flatten(q, n) ==
    IF n = 0 THEN <<>> ELSE Flatten(q, n - 1) \o q[n]

\* The lines of the scanned file, and its data lines: all lines but the
\* header line of a table that has one.
FileLines(csv) == Flatten(csv.partitions, Len(csv.partitions))
TableLines(csv) ==
    IF csv.header /\ FileLines(csv) # <<>> THEN Tail(FileLines(csv))
    ELSE FileLines(csv)

\* A line whose INT column holds a number.
ValidLine(line) == line[1] \in {"1", "2"}
ValidTable(csv) ==
    \A i \in DOMAIN TableLines(csv) : ValidLine(TableLines(csv)[i])

\* The registers after a valid line: column 0 as INT in register 0, column 1
\* as STR in register 1.
LineRow(line) ==
    (0 :> [tag |-> "INT", v |-> IF line[1] = "1" THEN 1 ELSE 2]
     @@ 1 :> [tag |-> "STR", v |-> line[2]])

\* C13: scan round trip. A file of N valid data lines scanned as one
\* partition: the calls of next return Ok(true) N times, the i-th leaving
\* the i-th data line in the registers, then Ok(false) on every later call.
C13_ScanRoundTrip ==
    (Len(scanCsv.partitions) = 1 /\ ValidTable(scanCsv))
        => /\ ~scanPanicked[0]
           /\ ~scanLate[0]
           /\ Len(scanOut[0]) <= Len(TableLines(scanCsv))
           /\ \A i \in DOMAIN scanOut[0] :
                 scanOut[0][i] = LineRow(TableLines(scanCsv)[i])
           /\ scanEnded[0] => Len(scanOut[0]) = Len(TableLines(scanCsv))

RECURSIVE Count(_, _)
\* How many times x is in the sequence q.
Count(q, x) ==
    IF q = <<>> THEN 0
    ELSE (IF Head(q) = x THEN 1 ELSE 0) + Count(Tail(q), x)

\* The rows of all the tasks of the stage.
AllScanOut ==
    Flatten([i \in 1 .. Len(scanCsv.partitions) |-> scanOut[i - 1]],
            Len(scanCsv.partitions))

\* C14: partitioned scan completeness. No data line is produced more often
\* than the table holds it, and when every task has reached the end of its
\* partition, the rows of all tasks are the data lines of the table as a
\* multiset.
C14_ScanCompleteness ==
    ValidTable(scanCsv)
        => /\ \A pid \in ScanTasks(scanCsv) : ~scanPanicked[pid]
           /\ \A i \in DOMAIN TableLines(scanCsv) :
                 Count(AllScanOut, LineRow(TableLines(scanCsv)[i]))
                     <= Count(TableLines(scanCsv), TableLines(scanCsv)[i])
           /\ (\A pid \in ScanTasks(scanCsv) : scanEnded[pid])
                 => /\ Len(AllScanOut) = Len(TableLines(scanCsv))
                    /\ \A i \in DOMAIN TableLines(scanCsv) :
                          Count(AllScanOut, LineRow(TableLines(scanCsv)[i]))
                              = Count(TableLines(scanCsv), TableLines(scanCsv)[i])

(***************************************************************************)
(* Properties of HashJoin, Repartition and Aggregation.                    *)
(***************************************************************************)
\* C15: HashJoin exhaustion. A call of next on a HashJoin that returns to its caller
\* returns Ok(false) exactly when the probe child, children[0], has
\* returned Ok(false) to it.
C15_HashJoinExhaustion ==
    (opNode.kind = "HashJoin" /\ opLast.ret \in {"OkTrue", "OkFalse"})
        => (opLast.ret = "OkFalse" <=> opLast.eof[1])

\* The data lines of a child of the operator.
ChildLines(c) == TableLines(opNode.children[c].csv)

\* The pairs of a probe line and a build line with the same join key, the
\* first column.
JoinPairs ==
    { <<i, j>> \in (DOMAIN ChildLines(1)) \X (DOMAIN ChildLines(2)) :
        ChildLines(1)[i][1] = ChildLines(2)[j][1] }

\* C16: HashJoin build/probe protocol. The first next() drains the build
\* child, children[1]; no later call pulls it; and the calls that return
\* Ok(true) are one per pair of a probe row and a matching build row.
C16_HashJoinProtocol ==
    (opNode.kind = "HashJoin" /\ opLast.ret \in {"OkTrue", "OkFalse"})
        => /\ opCalls = 1 => opLast.eof[2]
           /\ opCalls >= 2 => opLast.pulls[2] = 0
           /\ opLast.ret = "OkTrue" => opCalls <= Cardinality(JoinPairs)

\* The rows in all the shuffle files.
AllShuffled == Flatten([i \in 1 .. opNode.props.npartitions |-> shuffle[i - 1]],
                       opNode.props.npartitions)

\* C17: shuffle correctness. When the task whose root is a Repartition has
\* run, every row of the Repartition's child is in exactly one shuffle file:
\* the files together hold the rows of the child as a multiset.
C17_ShuffleCorrectness ==
    (/\ opNode.kind = "Repartition"
     /\ opCalls >= 1
     /\ ValidTable(opNode.children[1].csv))
        => /\ Len(AllShuffled) = Len(ChildLines(1))
           /\ \A i \in DOMAIN ChildLines(1) :
                 Count(AllShuffled, LineRow(ChildLines(1)[i]))
                     = Count(ChildLines(1), ChildLines(1)[i])

\* C18: Aggregation on empty input. Over a child without rows the first
\* next() returns Ok(true) without grouping keys and Ok(false) with them,
\* and a second next() returns Ok(false).
C18_AggregationEmptyInput ==
    (opNode.kind = "Aggregation" /\ ChildLines(1) = <<>> /\ opCalls >= 1)
        => /\ opCalls = 1
                => opLast.ret = (IF opNode.group_by THEN "OkFalse" ELSE "OkTrue")
           /\ opCalls >= 2 => opLast.ret = "OkFalse"

(***************************************************************************)
(* Properties of the compilation.                                          *)
(***************************************************************************)
\* The POP graph and the stage graph of the compiled Flow.
PopGraph == compiled.v.pop_graph
StageGraph == compiled.v.stage_graph

\* Each POP node is lowered from a LOP node of its kind, and its ordered
\* child list is the image of the ordered child list of that LOP node.
ChildImage ==
    \A p \in DOMAIN PopGraph :
        LET pop == PopGraph[p]
            lop == lop_graph[pop.lop_key]
        IN /\ pop.kind = PopKindOf(lop)
           /\ [i \in DOMAIN pop.children |-> PopGraph[pop.children[i]].lop_key]
                  = lop.children

IsTree(lops) ==
    \A k \in DOMAIN lops :
        Cardinality({ <<q, i>> \in (DOMAIN lops) \X (1 .. 2) :
                        i \in DOMAIN lops[q].children /\ lops[q].children[i] = k })
            <= 1

\* The number of paths from key k down to key t in the logical plan.
RECURSIVE PathsAt(_, _, _, _)
RECURSIVE PathsTo(_, _, _)
PathsAt(lops, k, i, t) ==
    IF i > Len(lops[k].children) THEN 0
    ELSE PathsTo(lops, lops[k].children[i], t) + PathsAt(lops, k, i + 1, t)
PathsTo(lops, k, t) ==
    IF k = t THEN 1 ELSE PathsAt(lops, k, 1, t)

RECURSIVE StageMembers(_, _)
\* The POP nodes of the stage whose root is k: k and the nodes below it, down
\* to the Repartitions below, which are not part of it.
StageMembers(pg, k) ==
    {k} \cup UNION { StageMembers(pg, pg[k].children[i]) :
                       i \in { j \in DOMAIN pg[k].children :
                                 pg[pg[k].children[j]].kind # "Repartition" } }

\* C20: stage partitioning. After POP::compile every POP node belongs to
\* exactly one stage, exactly one stage has no parent and it is rooted at
\* the plan root, every Repartition is the recorded root of exactly one
\* stage, and every stage with a parent is rooted at a Repartition.
C20_StagePartitioning ==
    compiled.some
        => /\ \A p \in DOMAIN PopGraph :
                 Cardinality({ s \in DOMAIN StageGraph :
                                 /\ StageGraph[s].pop_key.some
                                 /\ p \in StageMembers(PopGraph, StageGraph[s].pop_key.v) })
                     = 1
           /\ Cardinality({ s \in DOMAIN StageGraph :
                              ~StageGraph[s].parent_stage_id.some }) = 1
           /\ \A s \in DOMAIN StageGraph :
                 ~StageGraph[s].parent_stage_id.some
                     => StageGraph[s].pop_key = Some(Len(PopGraph))
           /\ \A p \in DOMAIN PopGraph :
                 PopGraph[p].kind = "Repartition"
                     => Cardinality({ s \in DOMAIN StageGraph :
                                        StageGraph[s].pop_key = Some(p) }) = 1
           /\ \A s \in DOMAIN StageGraph :
                 StageGraph[s].parent_stage_id.some
                     => /\ StageGraph[s].pop_key.some
                        /\ PopGraph[StageGraph[s].pop_key.v].kind = "Repartition"

(***************************************************************************)
(* Properties of the RegisterAllocator.                                    *)
(***************************************************************************)
\* The keys asked for in the first n calls of get_id.
KeysAsked(n) == { regalloc.gets[i].quncol : i \in 1 .. n }

\* C22: RegisterAllocator. After any sequence of get_id calls the same key
\* has got the same id every time, distinct keys have distinct ids, the ids
\* handed out are 0 .. n-1 for n distinct keys in the order of their first
\* request, and next_id is the number of distinct keys.
C22_RegisterAllocator ==
    LET gets == regalloc.gets
        n == Cardinality(KeysAsked(Len(gets)))
    IN /\ \A i, j \in DOMAIN gets :
             (gets[i].quncol = gets[j].quncol) <=> (gets[i].id = gets[j].id)
       /\ { gets[i].id : i \in DOMAIN gets } = 0 .. (n - 1)
       /\ \A i \in DOMAIN gets :
             gets[i].quncol \notin KeysAsked(i - 1)
                 => gets[i].id = Cardinality(KeysAsked(i - 1))
       /\ regalloc.ra.next_id = n
       /\ DOMAIN regalloc.ra.hashmap = KeysAsked(Len(gets))
       /\ \A i \in DOMAIN gets : regalloc.ra.hashmap[gets[i].quncol] = gets[i].id

\* A key has been asked for again after another key got its id.
C22_Witness ==
    \E i, j, k \in DOMAIN regalloc.gets :
        /\ i < j /\ j < k
        /\ regalloc.gets[i].quncol = regalloc.gets[k].quncol
        /\ regalloc.gets[i].quncol # regalloc.gets[j].quncol

(***************************************************************************)
(* Properties of the column resolution.                                    *)
(***************************************************************************)
\* The quantifiers that a column reference considers, and those of them
\* whose table has a column of the name.
QunsConsidered ==
    { i \in DOMAIN resolution.quns :
        \/ ~resolution.prefix.some
        \/ resolution.quns[i].name = resolution.prefix.v
        \/ resolution.quns[i].alias = Some(resolution.prefix.v) }
QunsHaving ==
    { i \in QunsConsidered :
        resolution.colname \in DOMAIN TableDescs[resolution.quns[i].name] }

\* C24: column resolution outcome. resolve_column returns the
\* column-not-found error exactly when no considered quantifier has the
\* column, the ambiguity error exactly when more than one has it, and
\* otherwise the matching quantifier and column with its datatype.
C24_ColumnResolution ==
    resolution.ret.kind # "none"
        => /\ resolution.ret.kind = "NotFound" <=> QunsHaving = {}
           /\ resolution.ret.kind = "Ambiguous" <=> Cardinality(QunsHaving) > 1
           /\ \A i \in QunsHaving :
                 QunsHaving = {i}
                     => LET col == TableDescs[resolution.quns[i].name][resolution.colname]
                        IN /\ resolution.ret.kind = "Ok"
                           /\ resolution.ret.quncol.v.qun_id = resolution.quns[i].id
                           /\ resolution.ret.quncol.v.col_id = col.col_id
                           /\ resolution.ret.quncol.v.datatype = col.datatype

\* A prefix has picked the column of the second of two quantifiers whose
\* tables both have it.
C24_Witness ==
    /\ resolution.ret.kind = "Ok"
    /\ resolution.prefix.some
    /\ Len(resolution.quns) = 2
    /\ resolution.ret.quncol.v.qun_id = 2
    /\ \A i \in DOMAIN resolution.quns :
          resolution.colname \in DOMAIN TableDescs[resolution.quns[i].name]

(***************************************************************************)
(* Properties of the environment.                                          *)
(***************************************************************************)
\* The upper-cased name of the last set_option call.
LastOption == to_uppercase[env.last.name]

\* C25: option parsing. The option name is matched whatever its case; for
\* PARSE_ONLY with a string value, true is stored exactly when the
\* upper-cased value is TRUE, T, YES or Y; for PARALLEL_DEGREE with an INT
\* value, that integer is stored.
C25_OptionParsing ==
    env.last.called
        => /\ (LastOption = "PARSE_ONLY" /\ env.last.value.tag = "STR")
                 => /\ env.last.ok
                    /\ env.settings.parse_only =
                          Some(to_uppercase[env.last.value.v] \in {"TRUE", "T", "YES", "Y"})
           /\ (LastOption = "PARALLEL_DEGREE" /\ env.last.value.tag = "INT")
                 => /\ env.last.ok
                    /\ env.settings.parallel_degree.some
                    /\ env.settings.parallel_degree.v.pow64 = 0
                    /\ env.settings.parallel_degree.v.plus = env.last.value.v

\* The calls of set_option that the code refuses.
LastRefused ==
    \/ LastOption \notin {"PARALLEL_DEGREE", "PARSE_ONLY"}
    \/ LastOption = "PARALLEL_DEGREE" /\ env.last.value.tag # "INT"
    \/ LastOption = "PARSE_ONLY" /\ env.last.value.tag # "STR"

\* C30: a set_option call with an unknown name, a value that is no INT for
\* PARALLEL_DEGREE or no STR for PARSE_ONLY returns Err and leaves both
\* settings as they were; a call that succeeds changes only the setting it
\* names.
C30_SetOptionFailure ==
    env.last.called
        => /\ ~env.last.ok <=> LastRefused
           /\ ~env.last.ok => env.settings = env.before
           /\ (env.last.ok /\ LastOption = "PARALLEL_DEGREE")
                 => env.settings.parse_only = env.before.parse_only
           /\ (env.last.ok /\ LastOption = "PARSE_ONLY")
                 => env.settings.parallel_degree = env.before.parallel_degree

\* A call has failed on a wrong value type after both settings were set.
C30_Witness ==
    /\ env.last.called
    /\ ~env.last.ok
    /\ LastOption \in {"PARALLEL_DEGREE", "PARSE_ONLY"}
    /\ env.before.parallel_degree.some
    /\ env.before.parse_only.some

Opened(pid) ==
    IF IsDir(scanCsv) THEN CsvDirOpen(scanCsv, pid) ELSE CsvOpen(scanCsv, pid)

\* The lines a task has taken from its iterator since it was created.
LinesTaken(ctx, out, panicked) == Len(out) + (IF panicked THEN 1 ELSE 0)

\* C26: lazy per-task operator state. The line iterator of a task on a scan
\* node (CSV or CSVDir) is created by the task's first next() call and every
\* later call uses it: it is never made again, so its position never goes
\* back, the header line is skipped when it is created and not again, every
\* row a call returns advances it by one line, and a call changes the
\* iterator of the calling task only.
C26_LazyOperatorState ==
    [][ \A pid \in ScanTasks(scanCsv) :
          /\ (~scanCtx[pid].some /\ scanCtx'[pid].some)
                => scanCtx'[pid].v = Opened(pid)
                                      + LinesTaken(scanCtx'[pid], scanOut'[pid],
                                                   scanPanicked'[pid])
          /\ scanCtx[pid].some
                => /\ scanCtx'[pid].some
                   /\ scanCtx[pid].v = Opened(pid)
                                        + LinesTaken(scanCtx[pid], scanOut[pid],
                                                     scanPanicked[pid])
                   /\ scanCtx'[pid].v = Opened(pid)
                                         + LinesTaken(scanCtx'[pid], scanOut'[pid],
                                                      scanPanicked'[pid])
                   /\ scanCtx'[pid].v >= scanCtx[pid].v
          /\ scanOut'[pid] # scanOut[pid]
                => \A other \in ScanTasks(scanCsv) \ {pid} :
                      /\ scanCtx'[other].some = scanCtx[other].some
                      /\ scanCtx[other].some => scanCtx'[other].v = scanCtx[other].v ]_vars

\* A task has got two rows from its iterator while another task had its own
\* iterator open.
C26_Witness ==
    \E pid, other \in ScanTasks(scanCsv) :
        /\ pid # other
        /\ scanCtx[pid].some
        /\ scanCtx[other].some
        /\ Len(scanOut[pid]) >= 2

(***************************************************************************)
(* Properties of the compiled registers, stages and properties.            *)
(***************************************************************************)
\* The register ids the PushReg instructions of an Option<Vec<PCode>> name.
PCodeRegs(pcodes) ==
    IF pcodes.some
    THEN UNION { { pcodes.v[i][j].r :
                     j \in { n \in DOMAIN pcodes.v[i] : pcodes.v[i][n].op = "PushReg" } } :
                 i \in DOMAIN pcodes.v }
    ELSE {}

\* The register ids a POP node references.
RegistersReferenced(pop) ==
    PCodeRegs(pop.props.predicates) \cup PCodeRegs(pop.props.emitcols)
    \cup (IF pop.kind = "CSV"
          THEN { pop.pop.input_map[c] : c \in DOMAIN pop.pop.input_map }
          ELSE {})
    \cup (IF pop.kind = "Repartition" /\ pop.pop.output_map.some
          THEN { pop.pop.output_map.v[i] : i \in DOMAIN pop.pop.output_map.v }
          ELSE {})

RECURSIVE Boundary(_)
\* The Repartition that bounds the stage of POP node p from above: p itself
\* when it is a Repartition, else the nearest Repartition above it, or 0
\* when there is none up to the plan root.
Boundary(p) ==
    IF PopGraph[p].kind = "Repartition" THEN p
    ELSE LET above == { q \in DOMAIN PopGraph :
                          \E i \in DOMAIN PopGraph[q].children :
                              PopGraph[q].children[i] = p }
         IN IF above = {} THEN 0 ELSE Boundary(CHOOSE q \in above : TRUE)

\* The stage POP node p belongs to: the stage that the Repartition bounding
\* it is the root of and that has a parent, or the stage of the plan root.
HomeStage(p) ==
    CHOOSE s \in DOMAIN StageGraph :
        IF Boundary(p) = 0
        THEN ~StageGraph[s].parent_stage_id.some
        ELSE /\ StageGraph[s].parent_stage_id.some
             /\ StageGraph[s].pop_key.some
             /\ StageGraph[s].pop_key.v = Boundary(p)

\* The allocator of stage s gave register reg to quncol.
RegisterOf(s, quncol, reg) ==
    LET hashmap == StageGraph[s].register_allocator.hashmap
    IN quncol \in DOMAIN hashmap /\ hashmap[quncol] = reg

\* C21: register discipline. Every register id a POP node references, in
\* the PushReg instructions of its predicates and emitcols, in the values of
\* a scan's input_map and in a Repartition's output_map, was allocated by
\* the register allocator of the stage the node belongs to, a Repartition
\* belonging to the stage it is the root of and not to its parent stage.
C21_RegisterDiscipline ==
    compiled.some
        => \A p \in DOMAIN PopGraph :
              LET pop == PopGraph[p]
                  s == HomeStage(p)
                  hashmap == StageGraph[s].register_allocator.hashmap
                  cols == elements(LopCols(lop_graph, pop.lop_key))
              IN /\ RegistersReferenced(pop) \subseteq
                        { hashmap[quncol] : quncol \in DOMAIN hashmap }
                 /\ pop.kind = "CSV"
                       => \A c \in DOMAIN pop.pop.input_map :
                             RegisterOf(s, <<pop.lop_key, c>>, pop.pop.input_map[c])
                 /\ (pop.kind = "Repartition" /\ pop.pop.output_map.some)
                       => \A i \in DOMAIN pop.pop.output_map.v :
                             RegisterOf(s, cols[i], pop.pop.output_map.v[i])

C28_RepartitionLowering ==
    compiled.some
        => \A p \in DOMAIN PopGraph :
              PopGraph[p].kind = "Repartition"
                  => LET pop == PopGraph[p]
                         lop == lop_graph[pop.lop_key]
                         cols == elements(LopCols(lop_graph, pop.lop_key))
                     IN /\ ~pop.props.predicates.some
                        /\ pop.pop.output_map.some <=> ~lop.emitcols.some
                        /\ pop.props.emitcols.some <=> lop.emitcols.some
                        /\ pop.pop.output_map.some <=> ~pop.props.emitcols.some
                        /\ pop.pop.output_map.some
                              => /\ Len(pop.pop.output_map.v) = Len(cols)
                                 /\ \A i \in DOMAIN cols :
                                       RegisterOf(pop.stage_id, cols[i],
                                                  pop.pop.output_map.v[i])

\* A plan with a Repartition that has emitcols and a Repartition that has
\* none and emits two columns or more has been compiled.
C28_Witness ==
    /\ compiled.some
    /\ \E p, q \in DOMAIN PopGraph :
          /\ PopGraph[p].kind = "Repartition"
          /\ PopGraph[q].kind = "Repartition"
          /\ PopGraph[p].props.emitcols.some
          /\ PopGraph[q].pop.output_map.some
          /\ Len(PopGraph[q].pop.output_map.v) >= 2

\* C29: predicate and emitter lowering. The POP node compiled from a LOP
\* node of any variant has one PCode per predicate of the LOP's preds and
\* one PCode per emit column of the LOP's emitcols, and has none only when
\* the LOP has none.
C29_PredicateEmitterLowering ==
    compiled.some
        => \A p \in DOMAIN PopGraph :
              LET pop == PopGraph[p]
                  lop == lop_graph[pop.lop_key]
              IN /\ pop.props.predicates.some <=> Len(lop.preds) > 0
                 /\ pop.props.predicates.some
                       => Len(pop.props.predicates.v) = Len(lop.preds)
                 /\ pop.props.emitcols.some <=> lop.emitcols.some
                 /\ pop.props.emitcols.some
                       => Len(pop.props.emitcols.v) = Len(lop.emitcols.v)

\* C31: join needs EndTask. ThreadPool::join returns only if every worker
\* has been sent EndTask, and a join() called without a close_all() before it
\* blocks for ever: the scheduler thread stays in join at every step.
C31_JoinNeedsEndTask ==
    [][/\ joined' => \A w \in Workers : nEndSent'[w] >= 1
       /\ (mainPc = "join" /\ ~closed) => mainPc' = "join"]_vars

\* The place of a sent task in the order Stage::run built and sent the tasks.
DispatchPos(t) ==
    CHOOSE i \in DOMAIN created : created[i] = [stage |-> t.stage, part |-> t.part]

\* The tasks worker w has started and not yet ended.
InProgress(w) ==
    { t \in started : t.w = w /\ ~\E f \in finished :
                                     f.w = w /\ f.stage = t.stage /\ f.part = t.part }

\* The RunTask messages that wait behind an EndTask in a dispatch channel.
BehindEndTask ==
    UNION { { [w |-> w, stage |-> queue[w][j].stage, part |-> queue[w][j].part] :
              j \in { k \in DOMAIN queue[w] :
                        /\ queue[w][k].type = "RunTask"
                        /\ \E i \in 1 .. (k - 1) : queue[w][i].type = "EndTask" } } :
            w \in Workers }

\* The RunTask messages lost with a receiver.
DroppedTasks == { [w |-> d.w, stage |-> d.stage, part |-> d.part] : d \in dropped }

\* C32: per-worker sequential FIFO execution. A worker has one task in
\* progress at most; when it starts a task, it has started every task sent
\* to it before that one, so tasks of congruent partition ids run one after
\* the other in dispatch order; and a RunTask behind an EndTask in a channel
\* stays there until it is lost with the receiver, and is never started.
C32_WorkerFifo ==
    [][/\ \A w \in Workers : Cardinality(InProgress(w)') <= 1
       /\ \A t \in started' \ started :
             /\ InProgress(t.w) = {}
             /\ \A u \in sent :
                   (u.w = t.w /\ DispatchPos(u) < DispatchPos(t)) => u \in started
       /\ BehindEndTask \subseteq (BehindEndTask' \cup DroppedTasks')
       /\ (BehindEndTask' \cup DroppedTasks') \cap started' = {}]_vars

\* A worker has run two tasks of one stage, whose partition ids are
\* congruent modulo the pool size, to their end.
C32_Witness ==
    \E t, u \in started :
        /\ t.w = u.w /\ t.stage = u.stage /\ t.part < u.part
        /\ t.part % NWorkers = u.part % NWorkers
        /\ InProgress(t.w) = {}

\* The worker thread of w has ended, after EndTask or after a panic.
Dead(w) == wstate[w] \in {"exited", "panicked"}

\* The tasks whose RunTask was sent and is neither in a channel, nor lost
\* with a receiver, nor started: their send failed.
LostAtSend ==
    { t \in sent :
        /\ t \notin started
        /\ t \notin DroppedTasks
        /\ ~\E i \in DOMAIN queue[t.w] :
               queue[t.w][i] = RunTaskMsg(t.stage, t.part) }

\* C33: lost task on a dead worker. A RunTask that Stage::run sends to a
\* worker whose thread has ended is not queued, Stage::run goes on as after
\* any send, and the task is never started and never reported ended.
C33_LostTask ==
    [][/\ \A t \in sent' \ sent :
             Dead(t.w) => /\ t \in LostAtSend'
                          /\ queue' = queue
                          /\ t2s' = t2s
                          /\ mainPc' \in {"run", "idle"}
       /\ LostAtSend \subseteq LostAtSend'
       /\ \A t \in LostAtSend' :
             ~\E f \in finished' : f.w = t.w /\ f.stage = t.stage /\ f.part = t.part]_vars

\* Flow::run has returned, every channel is empty and no worker runs a task,
\* and a task that was sent to a worker after it had panicked never ran.
C33_Witness ==
    /\ flowRan /\ mainPc = "idle"
    /\ \A w \in Workers : queue[w] = <<>> /\ wstate[w] # "running"
    /\ \E t \in LostAtSend : wstate[t.w] = "panicked"

(***************************************************************************)
(* Properties of the resolution of a query block.                          *)
(***************************************************************************)
\* The expressions of a block that are, or were, column references, in the
\* order resolve visits them: the select list, then the sides of the
\* predicate.
ColumnNodes(select_list, pred_list) ==
    select_list \o (IF pred_list.some
                    THEN SelectSeq(<<pred_list.v.lhs, pred_list.v.rhs>>,
                                   LAMBDA x : x.e # "Literal")
                    ELSE <<>>)

BlockColumns == ColumnNodes(qblock.select_list, qblock.pred_list)
BlockOffsets == ColumnNodes(qblock.ret.select_list, qblock.ret.pred_list)

\* The quantifier and the ColId that a column reference of the block names.
RefQun(ref) ==
    CHOOSE i \in DOMAIN qblock.quns :
        /\ \/ ~ref.prefix.some
           \/ qblock.quns[i].name = ref.prefix.v
           \/ qblock.quns[i].alias = Some(ref.prefix.v)
        /\ ref.colname \in DOMAIN TableDescs[qblock.quns[i].name]
RefCol(ref) ==
    <<RefQun(ref), TableDescs[qblock.quns[RefQun(ref)].name][ref.colname].col_id>>

\* The number of different columns that the block references before its
\* first reference to the column of its k-th reference.
FirstReferenceRank(k) ==
    LET first == CHOOSE j \in 1 .. k :
                     /\ RefCol(BlockColumns[j]) = RefCol(BlockColumns[k])
                     /\ \A h \in 1 .. (j - 1) :
                           RefCol(BlockColumns[h]) # RefCol(BlockColumns[k])
    IN Cardinality({ RefCol(BlockColumns[h]) : h \in 1 .. (first - 1) })

\* C34: column-to-tuple-offset rewriting. After QueryBlock::resolve
\* succeeds, every Column node is QTupleOffset(i), i being the offset that
\* the column_map of the quantifier records for the column, and the offsets
\* are 0, 1, 2, ... in the order of the first references: one column has
\* one offset and two different columns have different offsets.
C34_TupleOffsetRewriting ==
    qblock.ret.kind = "Ok"
        => \A k \in DOMAIN BlockColumns :
              LET qc == RefCol(BlockColumns[k])
              IN /\ qblock.ret.column_maps[qc[1]][qc[2]] = FirstReferenceRank(k)
                 /\ BlockOffsets[k] = QTupleOffset(FirstReferenceRank(k))

(***************************************************************************)
(* Properties of the bitsets of one dictionary.                            *)
(***************************************************************************)
\* elements() of bitset i of the family bs, as a set.
ElementsOf(bs, i) ==
    LET els == bitset_elements(bs, i) IN { els[k] : k \in DOMAIN els }
Now(i) == ElementsOf(bitsets, i)

\* In the family `after`, which an operation made of the bitsets, every
\* element has the bit index it had and no other element has it, elements()
\* lists each element once, and all bitsets but those of I have the elements
\* they had.
Kept(after, I) ==
    /\ \A e \in DOMAIN bitsets.dict :
          e \in DOMAIN after.dict /\ after.dict[e] = bitsets.dict[e]
    /\ \A e, f \in DOMAIN after.dict : after.dict[e] = after.dict[f] => e = f
    /\ \A k \in DOMAIN after.bitmaps :
          Len(bitset_elements(after, k)) = Cardinality(ElementsOf(after, k))
    /\ \A k \in Sets \ I : ElementsOf(after, k) = Now(k)

\* C35: bitset algebra over a shared dictionary. Whatever operation is
\* made on bitsets cloned from one bitset, after any operations before it,
\* an element keeps its bit index in all of them; set(e) adds e to the
\* elements of its bitset and leaves those of every other bitset alone; a
\* clone has the elements of its origin; a | b and a |= b have the union,
\* a & b the intersection of the elements of a and b.
C35_BitsetAlgebra ==
    /\ Kept(bitsets, {})
    /\ \A i \in Sets :
          /\ \A elem \in Elems :
                Only({ ElementsOf(r, i) = Now(i) \cup {elem} /\ Kept(r, {i}) :
                       r \in { set(bitsets, i, elem) } })
          /\ Only({ ElementsOf(r, Len(r.bitmaps)) = Now(i) /\ Kept(r, {}) :
                    r \in { clone(bitsets, i) } })
          /\ \A j \in Sets :
                /\ Only({ ElementsOf(r, i) = Now(i) \cup Now(j) /\ Kept(r, {i}) :
                          r \in { bitor_assign(bitsets, i, j) } })
                /\ Only({ ElementsOf(r, i) = Now(i) \cup Now(j) /\ Kept(r, {i}) :
                          r \in { bitor(bitsets, i, j) } })
                /\ Only({ ElementsOf(r, i) = Now(i) \cap Now(j) /\ Kept(r, {i}) :
                          r \in { bitand(bitsets, i, j) } })
                /\ Only({ ElementsOf(r, Len(r.bitmaps)) = Now(i) \cap Now(j)
                          /\ Kept(r, {}) :
                          r \in { bitand_ref(bitsets, i, j) } })

\* Three bitsets of one dictionary with three elements have different
\* elements: one has them all, one has two, one has the element that was
\* set first and not the one that was set last.
C35_Witness ==
    /\ Len(bitsets.bitmaps) = MaxSets
    /\ bitsets.next_id = Cardinality(Elems)
    /\ \E i, j, k \in Sets :
          /\ Now(i) = Elems
          /\ Cardinality(Now(j)) = Cardinality(Elems) - 1
          /\ Cardinality(Now(k)) = 1 /\ Now(k) \cap Now(j) = {}

====
